---- MODULE Spec2Model ----
(***************************************************************************)
(* A model of the il0373 e-paper driver: the command codec (command.rs),   *)
(* the two transports (interface.rs), the controller lifecycle             *)
(* (display.rs) and the two pixel buffers (graphics.rs).                   *)
(*                                                                         *)
(* Every public operation is one action.  An operation threads a record    *)
(* `s` (the transport: its pins, the external memory, and the logs of what *)
(* it did) through the calls its code makes; a Result is the field         *)
(* s.err, and the `?` operator is "stop at the first s.err".  The          *)
(* operation's record becomes the variable `io`.  The only handler that    *)
(* is split is busy_wait, whose loop reads a line the controller drives.   *)
(***************************************************************************)
EXTENDS Integers, Sequences, FiniteSets, TLC

VARIABLES
    config,        \* Display.config: the Config built by the Builder
    kind,          \* which DisplayInterface the Display owns
    io,            \* the transport (Interface / SramDisplayInterface + SpiBus)
    black_buffer,  \* GraphicDisplay.black_buffer
    red_buffer,    \* GraphicDisplay.red_buffer
    op,            \* the operation that ran last
    result,        \* what it returned: "Ok", "Err", or "none" while it runs
    pc,            \* "idle"; "busy_wait" while update spins on the busy line;
                   \* "returned" until the caller has taken the result
    busy,          \* the busy line, driven by the controller
    lifecycle,     \* the controller: Uninitialized, Active or Sleeping
    draws,         \* number of clear / set_pixel calls so far
    sram_display,  \* SramGraphicDisplay: buffer_size, black_address, red_address
    arg            \* the arguments of the operation, where a claim needs them:
                   \* the command executed, or the call of rotation() with
                   \* its result

vars == <<config, kind, io, black_buffer, red_buffer, op, result, pc, busy,
          lifecycle, draws, sram_display, arg>>

----------------------------------------------------------------------------
(* Bounds of the model.                                                    *)

\* rows of the panel the Display is built for (it has 8 columns)
MaxRows == 2
\* clear / set_pixel calls in one behaviour
MaxDraws == 1
\* operations of one behaviour whose transfers fail
MaxFaults == 1
\* rotation() is applied to the pixels at most this far from an edge
RotSpan == 8
\* drawing operations in a run of the in-host graphic display
MaxStrokes == 2
\* drawing operations in a run of the graphic display in the memory chip
MaxSramStrokes == 2

\* the addresses and the lengths of the calls on the shared bus: 0..BusSpan
BusSpan == 2

----------------------------------------------------------------------------
(* Bytes.                                                                  *)

Pow2(n) == 2 ^ n

Bit(v, i) == (v \div Pow2(i)) % 2

\* a | b on 16 bits
BitOr(a, b) ==
    LET or[i \in 0..16] ==
            IF i = 16 THEN 0
            ELSE (IF Bit(a, i) = 1 \/ Bit(b, i) = 1 THEN Pow2(i) ELSE 0) + or[i + 1]
    IN  or[0]

\* a & b on 16 bits
BitAnd(a, b) ==
    LET and[i \in 0..16] ==
            IF i = 16 THEN 0
            ELSE (IF Bit(a, i) = 1 /\ Bit(b, i) = 1 THEN Pow2(i) ELSE 0) + and[i + 1]
    IN  and[0]

\* !b on a u8
BitNot8(b) == 255 - b

\* (v << n) as u8: the bits shifted past bit 7 are lost
Shl8(v, n) == (v * Pow2(n)) % 256

\* v >> n
Shr(v, n) == v \div Pow2(n)

\* x as u8, x as u16
AsU8(x) == x % 256
AsU16(x) == x % 65536

----------------------------------------------------------------------------
(* command.rs: the commands and their encoding.                            *)

DisplayResolution == {"R96x230", "R96x252", "R128x296", "R160x296"}
DataPolarity == {"BWOnly", "RedOnly", "Both"}
DataInterval == {"V2", "V3", "V4", "V5", "V6", "V7", "V8", "V9", "V10",
                 "V11", "V12", "V13", "V14", "V15", "V16", "V17"}

PanelSetting(res) == [tag |-> "PanelSetting", res |-> res]
PowerSetting(vdh, vdl, vdhr) ==
    [tag |-> "PowerSetting", vdh |-> vdh, vdl |-> vdl, vdhr |-> vdhr]
PowerOff == [tag |-> "PowerOff"]
PowerOn == [tag |-> "PowerOn"]
BoosterSoftStart(a, b, c) ==
    [tag |-> "BoosterSoftStart", phase_a |-> a, phase_b |-> b, phase_c |-> c]
DeepSleep == [tag |-> "DeepSleep"]
DataStop == [tag |-> "DataStop"]
DisplayRefresh == [tag |-> "DisplayRefresh"]
PLLControl(clock) == [tag |-> "PLLControl", clock |-> clock]
VCOMDataIntervalSetting(border, pol, interval) ==
    [tag |-> "VCOMDataIntervalSetting", border_data |-> border,
     data_polarity |-> pol, interval |-> interval]
ResolutionSetting(horiz, vertical) ==
    [tag |-> "ResolutionSetting", horiz |-> horiz, vertical |-> vertical]
VCMDCSetting(vcom_dc) == [tag |-> "VCMDCSetting", vcom_dc |-> vcom_dc]

\* the resolution class placed in bits 4-5
ResBits_low(res) ==
    CASE res = "R96x230" -> 0
      [] res = "R96x252" -> 16
      [] res = "R128x296" -> 32
      [] res = "R160x296" -> 48

\* the match on resolution in Command::execute
ResBits(res) ==
    CASE res = "R96x230" -> 0
      [] res = "R96x252" -> 64
      [] res = "R128x296" -> 128
      [] res = "R160x296" -> 192

\* the match on data_polarity
PolarityBits(pol) ==
    CASE pol = "BWOnly" -> 16
      [] pol = "RedOnly" -> 32
      [] pol = "Both" -> 48

\* the interval codes counting up from V2
IntervalBits_ascending(interval) ==
    CASE interval = "V2" -> 0
      [] interval = "V3" -> 1
      [] interval = "V4" -> 2
      [] interval = "V5" -> 3
      [] interval = "V6" -> 4
      [] interval = "V7" -> 5
      [] interval = "V8" -> 6
      [] interval = "V9" -> 7
      [] interval = "V10" -> 8
      [] interval = "V11" -> 9
      [] interval = "V12" -> 10
      [] interval = "V13" -> 11
      [] interval = "V14" -> 12
      [] interval = "V15" -> 13
      [] interval = "V16" -> 14
      [] interval = "V17" -> 15

\* the match on interval
IntervalBits(interval) ==
    CASE interval = "V2" -> 15
      [] interval = "V3" -> 14
      [] interval = "V4" -> 13
      [] interval = "V5" -> 12
      [] interval = "V6" -> 11
      [] interval = "V7" -> 10
      [] interval = "V8" -> 9
      [] interval = "V9" -> 8
      [] interval = "V10" -> 7
      [] interval = "V11" -> 6
      [] interval = "V12" -> 5
      [] interval = "V13" -> 4
      [] interval = "V14" -> 3
      [] interval = "V15" -> 2
      [] interval = "V16" -> 1
      [] interval = "V17" -> 0

\* the vertical resolution without its bit 8
VresBytes_low_only(vertical) == <<0, AsU8(BitAnd(vertical, 255))>>

\* vres_hi = ((vertical & 0x100) >> 8) as u8 and vres_lo = (vertical & 0xFF) as u8
VresBytes(vertical) ==
    <<AsU8(Shr(BitAnd(vertical, 256), 8)), AsU8(BitAnd(vertical, 255))>>

\* the (command, data) pair the match of Command::execute packs
Pack(c) ==
    CASE c.tag = "PanelSetting" ->
            [command |-> 0, data |-> <<BitOr(ResBits(c.res), 15)>>]
      [] c.tag = "PowerSetting" ->
            [command |-> 1, data |-> <<3, 0, c.vdh, c.vdl, c.vdhr>>]
      [] c.tag = "PowerOff" -> [command |-> 3, data |-> <<>>]
      [] c.tag = "PowerOn" -> [command |-> 4, data |-> <<>>]
      [] c.tag = "BoosterSoftStart" ->
            [command |-> 6, data |-> <<c.phase_a, c.phase_b, c.phase_c>>]
      [] c.tag = "DeepSleep" -> [command |-> 8, data |-> <<165>>]
      [] c.tag = "DataStop" -> [command |-> 17, data |-> <<>>]
      [] c.tag = "DisplayRefresh" -> [command |-> 18, data |-> <<>>]
      [] c.tag = "PLLControl" -> [command |-> 48, data |-> <<c.clock>>]
      [] c.tag = "VCOMDataIntervalSetting" ->
            [command |-> 80,
             data |-> <<BitOr(BitOr(Shl8(c.border_data, 6),
                                    PolarityBits(c.data_polarity)),
                              IntervalBits(c.interval))>>]
      [] c.tag = "ResolutionSetting" ->
            [command |-> 97,
             data |-> <<c.horiz>> \o VresBytes(c.vertical)]
      [] c.tag = "VCMDCSetting" -> [command |-> 130, data |-> <<c.vcom_dc>>]

\* BufCommand::execute with the opcodes of the two planes exchanged
BufPack_swapped(layer, buffer) ==
    [command |-> IF layer = 0 THEN 19 ELSE 16, data |-> buffer]

\* the (command, data) pair of BufCommand::execute
BufPack(layer, buffer) ==
    [command |-> IF layer = 0 THEN 16 ELSE 19, data |-> buffer]

----------------------------------------------------------------------------
(* interface.rs: pins, logs and the two SPI peripherals.                   *)
(*                                                                         *)
(* s.wire logs what the pins and the bus did, in order: a pin edge, a      *)
(* delay, or one byte clocked together with the levels of dc and of both   *)
(* chip-selects at that moment.  s.calls logs the DisplayInterface calls   *)
(* as they return.  s.fails is the set of transfers (counted by s.n from   *)
(* the start of the operation) that the peripheral fails.                  *)

RESET_DELAY_MS == 10
MCPSRAM_READ == 3
MCPSRAM_WRITE == 2
MCPSRAM_WRSR == 1
K640_SEQUENTIAL_MODE == Shl8(1, 6)

\* Whether the operation has ended early: a `?` has returned an error, or
\* a panic unwinds.  Every step below leaves such a transport as it is, so
\* that `a()?; b()?` is B(A(s)).
Halted(s) == s.err \/ s.panic

Log(s, e) == [s EXCEPT !.wire = Append(@, e)]

\* a DisplayInterface call returns: it is logged with whether it returned Ok
Call(s, e) ==
    IF s.panic THEN s ELSE [s EXCEPT !.calls = Append(@, [e EXCEPT !.ok = ~s.err])]

\* OutputPin::set_low / set_high
SetPin(s, pin, v) ==
    IF Halted(s) THEN s
    ELSE Log([s EXCEPT ![pin] = v], [ev |-> "pin", pin |-> pin, v |-> v])

\* DelayMs::delay_ms
DelayMs(s, ms) == IF Halted(s) THEN s ELSE Log(s, [ev |-> "delay", ms |-> ms])

\* Result::ok(): the error is dropped
Swallow(s) == [s EXCEPT !.err = FALSE]

Tick(s) == [s EXCEPT !.n = @ + 1]

Failing(s) == (s.n + 1) \in s.fails

Fail(s) == Log([Tick(s) EXCEPT !.err = TRUE], [ev |-> "fail", n |-> s.n + 1])

\* The memory chip, idle: it waits for an instruction byte.
ChipIdle == [phase |-> "cmd", opcode |-> 0, addr |-> 0]

\* sram_cs.set_low / set_high: the memory chip starts a new instruction at
\* each edge of its chip-select
SetSramCs(s, v) ==
    IF Halted(s) THEN s
    ELSE IF s.sram_cs = v THEN SetPin(s, "sram_cs", v)
    ELSE [SetPin(s, "sram_cs", v) EXCEPT !.chip = ChipIdle]

\* The memory chip clocks byte b in (sram_cs low): instruction, two address
\* bytes, then data at consecutive addresses; the byte it shifts out is
\* s.miso.  s.mem holds the first bytes of the memory and, as its last byte,
\* all the memory above them: an address past s.mem is that last byte.
ChipClock(s, b) ==
    LET c == s.chip
        size == Len(s.mem)
        a == IF c.addr < size THEN c.addr + 1 ELSE size
    IN  CASE c.phase = "cmd" ->
                [s EXCEPT !.miso = 0,
                          !.chip = [phase |-> IF b \in {MCPSRAM_READ, MCPSRAM_WRITE}
                                                THEN "hi"
                                                ELSE IF b = MCPSRAM_WRSR THEN "status"
                                                ELSE "ignore",
                                    opcode |-> b, addr |-> 0]]
          [] c.phase = "hi" ->
                [s EXCEPT !.miso = 0, !.chip.addr = b * 256, !.chip.phase = "lo"]
          [] c.phase = "lo" ->
                [s EXCEPT !.miso = 0, !.chip.addr = @ + b, !.chip.phase = "data"]
          [] c.phase = "data" /\ c.opcode = MCPSRAM_READ /\ size > 0 ->
                [s EXCEPT !.miso = s.mem[a], !.chip.addr = IF a < size THEN a ELSE size - 1,
                          !.reads = Append(@, c.addr)]
          [] c.phase = "data" /\ c.opcode = MCPSRAM_WRITE /\ size > 0 ->
                [s EXCEPT !.miso = 0, !.mem[a] = b, !.chip.addr = IF a < size THEN a ELSE size - 1]
          [] c.phase = "status" ->
                [s EXCEPT !.miso = 0, !.seq = (Bit(b, 6) = 1), !.chip.phase = "ignore"]
          [] OTHER -> [s EXCEPT !.miso = 0]

\* one byte on the bus: both chips see it, each if its chip-select is low
Clock(s, b) ==
    LET s1 == IF s.sram_cs = 0 THEN ChipClock(s, b) ELSE [s EXCEPT !.miso = 0]
    IN  Log(s1, [ev |-> "byte", v |-> b, dc |-> s.dc, cs |-> s.cs,
                 sram_cs |-> s.sram_cs])

RECURSIVE ClockAll(_, _)
ClockAll(s, data) ==
    IF data = <<>> THEN s ELSE ClockAll(Clock(s, Head(data)), Tail(data))

\* hal::blocking::spi::Write::write: the whole slice, or an error
SpiWrite(s, data) ==
    IF Halted(s) THEN s
    ELSE IF Failing(s) THEN Fail(s)
    ELSE ClockAll(Tick(s), data)

\* nb::block!(spi.send(b))
Send(s, b) ==
    IF Halted(s) THEN s
    ELSE IF Failing(s) THEN Fail(s)
    ELSE Clock(Tick(s), b)

\* nb::block!(spi.read()): the byte is s.miso
Read(s) ==
    IF Halted(s) THEN s
    ELSE IF Failing(s) THEN Fail(s)
    ELSE Tick(s)

\* send(b)?; read()?
SendRead(s, b) == Read(Send(s, b))

----------------------------------------------------------------------------
(* interface.rs: Interface (the controller alone on the bus).              *)

\* Interface::write
Interface_write(s, data) == SetPin(SpiWrite(SetPin(s, "cs", 0), data), "cs", 1)

\* one reset pulse: low, delay, high, delay
ResetPulse(s) ==
    DelayMs(SetPin(DelayMs(SetPin(s, "reset", 0), RESET_DELAY_MS), "reset", 1),
            RESET_DELAY_MS)

\* a reset of two pulses
ResetPulses_twice(s) == ResetPulse(ResetPulse(s))

\* the three reset pulses of both reset() implementations
ResetPulses(s) == ResetPulse(ResetPulse(ResetPulse(s)))

\* Interface::reset
Interface_reset(s) == ResetPulses(s)

\* Interface::send_command
Interface_send_command(s, command) ==
    SetPin(Interface_write(SetPin(s, "dc", 0), <<command>>), "dc", 1)

\* Interface::send_data
Interface_send_data(s, data) == Interface_write(SetPin(s, "dc", 1), data)

----------------------------------------------------------------------------
(* interface.rs: SpiBus (controller and memory chip on one bus).           *)

\* SpiBus::write
RECURSIVE SpiBus_write(_, _)
SpiBus_write(s, data) ==
    IF Halted(s) \/ data = <<>> THEN s
    ELSE SpiBus_write(SendRead(s, Head(data)), Tail(data))

\* *byte = read()?
StoreRead(s) == IF Halted(s) THEN s ELSE [s EXCEPT !.rx = Append(@, s.miso)]

\* the loop of SpiBus::transfer: the bytes read replace the slice (s.rx)
RECURSIVE SpiBus_transfer_from(_, _)
SpiBus_transfer_from(s, data) ==
    IF Halted(s) \/ data = <<>> THEN s
    ELSE SpiBus_transfer_from(StoreRead(SendRead(s, Head(data))), Tail(data))

\* SpiBus::transfer
SpiBus_transfer(s, data) ==
    IF Halted(s) THEN s ELSE SpiBus_transfer_from([s EXCEPT !.rx = <<>>], data)

\* SpiBus::sram_init
SpiBus_sram_init(s) ==
    SetSramCs(SpiBus_write(SetSramCs(s, 0), <<255, 255, 255>>), 1)

\* SpiBus::sram_seq
SpiBus_sram_seq(s) ==
    SetSramCs(SpiBus_write(SetSramCs(s, 0),
                           <<MCPSRAM_WRSR, K640_SEQUENTIAL_MODE>>), 1)

\* the 3-byte header [opcode, address >> 8, address & 0xFF]
SramHeader(opcode, address) == <<opcode, AsU8(Shr(address, 8)), BitAnd(address, 255)>>

\* SpiBus::sram_write
SpiBus_sram_write(s, address, data) ==
    SetSramCs(SpiBus_write(SpiBus_write(SetSramCs(s, 0),
                                        SramHeader(MCPSRAM_WRITE, address)),
                           data), 1)

\* SpiBus::sram_read
SpiBus_sram_read(s, address, data) ==
    SetSramCs(SpiBus_transfer(SpiBus_write(SetSramCs(s, 0),
                                           SramHeader(MCPSRAM_READ, address)),
                              data), 1)

\* the loop of SpiBus::sram_erase
RECURSIVE EraseLoop(_, _, _)
EraseLoop(s, len, val) ==
    IF Halted(s) \/ len = 0 THEN s
    ELSE EraseLoop(SendRead(s, val), len - 1, val)

\* SpiBus::sram_erase
SpiBus_sram_erase(s, address, len, val) ==
    SetSramCs(EraseLoop(SpiBus_write(SetSramCs(s, 0),
                                     SramHeader(MCPSRAM_WRITE, address)),
                        len, val), 1)

\* SpiBus::sram_epd_move_header: Ok(c) is s.miso
SpiBus_sram_epd_move_header(s, address, epd_location) ==
    SendRead(SetPin(SpiBus_write(SetSramCs(s, 0),
                                 SramHeader(MCPSRAM_READ, address)), "cs", 0),
             epd_location)

\* the loop of SpiBus::sram_epd_move_body: c = read()? is s.miso
RECURSIVE MoveLoop(_, _)
MoveLoop(s, len) ==
    IF Halted(s) \/ len = 0 THEN s
    ELSE MoveLoop(SendRead(s, s.miso), len - 1)

\* SpiBus::sram_epd_move_body, its argument ch being s.miso
SpiBus_sram_epd_move_body(s, data_len) ==
    SetSramCs(SetPin(MoveLoop(s, data_len), "cs", 1), 1)

\* SpiBus::epd_write
SpiBus_epd_write(s, data) == SetPin(SpiBus_write(SetPin(s, "cs", 0), data), "cs", 1)

----------------------------------------------------------------------------
(* interface.rs: SramDisplayInterface.                                     *)

\* SramDisplayInterface::send_command
Sram_send_command(s, command) == SpiBus_epd_write(SetPin(s, "dc", 0), <<command>>)

\* SramDisplayInterface::send_data
Sram_send_data(s, data) == SpiBus_epd_write(SetPin(s, "dc", 1), data)

\* SramDisplayInterface::reset
Sram_reset(s) ==
    IF Halted(s) THEN s
    ELSE Swallow(SpiBus_sram_seq(ResetPulses(Swallow(SpiBus_sram_init(s)))))

\* SramDisplayInterface::sram_epd_update_data
Sram_sram_epd_update_data(s, layer, nbytes, start_address) ==
    SpiBus_sram_epd_move_body(
        SetPin(SpiBus_sram_epd_move_header(SetPin(s, "dc", 0), start_address,
                                           IF layer = 0 THEN 16 ELSE 19),
               "dc", 1),
        nbytes)

----------------------------------------------------------------------------
(* interface.rs: the DisplayInterface trait, dispatched on the kind of     *)
(* interface the Display owns.  Each call is logged as it returns.         *)

IsInterface(k) == k = "Interface"

Panic(s) == [s EXCEPT !.panic = TRUE]

\* DisplayInterface::send_command
send_command(k, s, command) ==
    IF Halted(s) THEN s
    ELSE Call(IF IsInterface(k) THEN Interface_send_command(s, command)
              ELSE Sram_send_command(s, command),
              [f |-> "send_command", command |-> command, ok |-> TRUE])

\* DisplayInterface::send_data
send_data(k, s, data) ==
    IF Halted(s) THEN s
    ELSE Call(IF IsInterface(k) THEN Interface_send_data(s, data)
              ELSE Sram_send_data(s, data),
              [f |-> "send_data", data |-> data, ok |-> TRUE])

\* DisplayInterface::reset
reset(k, s) ==
    IF Halted(s) THEN s
    ELSE Call(IF IsInterface(k) THEN Interface_reset(s) ELSE Sram_reset(s),
              [f |-> "reset", ok |-> TRUE])

\* DelayMs::delay_ms called by the Display
delay_ms(s, ms) ==
    IF Halted(s) THEN s
    ELSE Call(DelayMs(s, ms), [f |-> "delay_ms", ms |-> ms, ok |-> TRUE])

\* the arguments sent although send_command has failed
SendArgs_after_error(k, s, data) ==
    IF Len(data) = 0 THEN s ELSE send_data(k, Swallow(s), data)

\* if data.len() == 0 { Ok(()) } else { interface.send_data(data) }
SendArgs(k, s, data) == IF Len(data) = 0 THEN s ELSE send_data(k, s, data)

\* execute calling send_data for every command, with or without arguments
Command_execute_always_data(k, s, c) ==
    send_data(k, send_command(k, s, Pack(c).command), Pack(c).data)

\* Command::execute
Command_execute(k, s, c) ==
    SendArgs(k, send_command(k, s, Pack(c).command), Pack(c).data)

\* the debug_assert!s of the match of Command::execute
DebugAsserts(c) ==
    CASE c.tag = "PowerSetting" -> c.vdh < 64 /\ c.vdl < 64 /\ c.vdhr < 64
      [] c.tag = "VCOMDataIntervalSetting" -> c.border_data < 4
      [] c.tag = "VCMDCSetting" -> c.vcom_dc <= 58
      [] OTHER -> TRUE

\* Command::execute in a build with debug assertions (checks) or without:
\* a failed debug_assert! panics before anything is sent
Command_execute_build(k, s, c, checks) ==
    IF checks /\ ~DebugAsserts(c) THEN Panic(s) ELSE Command_execute(k, s, c)

\* BufCommand::execute
BufCommand_execute(k, s, layer, buffer) ==
    SendArgs(k, send_command(k, s, BufPack(layer, buffer).command),
             BufPack(layer, buffer).data)

\* DisplayInterface::epd_update_data: Interface sends buf[..nbytes];
\* SramDisplayInterface panics
epd_update_data(k, s, layer, nbytes, buf) ==
    IF Halted(s) THEN s
    ELSE IF ~IsInterface(k) \/ nbytes > Len(buf) THEN Panic(s)
    ELSE Call(BufCommand_execute(k, s, layer, SubSeq(buf, 1, nbytes)),
              [f |-> "epd_update_data", layer |-> layer, nbytes |-> nbytes,
               ok |-> TRUE])

\* DisplayInterface::sram_epd_update_data: Interface panics
sram_epd_update_data(k, s, layer, nbytes, start_address) ==
    IF Halted(s) THEN s
    ELSE IF IsInterface(k) THEN Panic(s)
    ELSE Call(Sram_sram_epd_update_data(s, layer, nbytes, start_address),
              [f |-> "sram_epd_update_data", layer |-> layer, nbytes |-> nbytes,
               start_address |-> start_address, ok |-> TRUE])

\* sram_read returns: the call is logged with the bytes now in the slice
ReadCall(s, address) ==
    IF s.panic THEN s
    ELSE [s EXCEPT !.calls = Append(@, [f |-> "sram_read", address |-> address,
                                        data |-> s.rx, ok |-> ~s.err])]

\* DisplayInterface::sram_read: the bytes read are s.rx
sram_read(k, s, address, data) ==
    IF Halted(s) THEN s
    ELSE IF IsInterface(k) THEN Panic(s)
    ELSE ReadCall(SpiBus_sram_read(s, address, data), address)

\* DisplayInterface::sram_write
sram_write(k, s, address, data) ==
    IF Halted(s) THEN s
    ELSE IF IsInterface(k) THEN Panic(s)
    ELSE Call(SpiBus_sram_write(s, address, data),
              [f |-> "sram_write", address |-> address, data |-> data,
               ok |-> TRUE])

\* DisplayInterface::sram_clear
sram_clear(k, s, address, nbytes, val) ==
    IF Halted(s) THEN s
    ELSE IF IsInterface(k) THEN Panic(s)
    ELSE Call(SpiBus_sram_erase(s, address, nbytes, val),
              [f |-> "sram_clear", address |-> address, nbytes |-> nbytes,
               val |-> val, ok |-> TRUE])

----------------------------------------------------------------------------
(* config.rs: the Builder.                                                 *)

Rotations == {"Rotate0", "Rotate90", "Rotate180", "Rotate270"}

\* display.rs: the most rows and columns the controller drives
MAX_GATE_OUTPUTS == 296
MAX_SOURCE_OUTPUTS == 160

\* Builder::default.  dimensions is the Option: <<>> for None, <<d>> for
\* Some(d); panic says that an assertion of the builder has failed, after
\* which nothing more of the chain is run.
Builder_default ==
    [power_setting |-> PowerSetting(43, 43, 9),
     booster_soft_start |-> BoosterSoftStart(23, 23, 23),
     panel_setting |-> PanelSetting("R160x296"),
     pll |-> PLLControl(41),
     dimensions |-> <<>>,
     rotation |-> "Rotate0",
     panic |-> FALSE]

\* Builder::panel_setting
Builder_panel_setting(b, res) ==
    IF b.panic THEN b ELSE [b EXCEPT !.panel_setting = PanelSetting(res)]

\* Builder::power_setting
Builder_power_setting(b, vdh, vdl, vdhr) ==
    IF b.panic THEN b ELSE [b EXCEPT !.power_setting = PowerSetting(vdh, vdl, vdhr)]

\* Builder::booster_soft_start
Builder_booster_soft_start(b, vhh, vhl, vhgl) ==
    IF b.panic THEN b
    ELSE [b EXCEPT !.booster_soft_start = BoosterSoftStart(vhh, vhl, vhgl)]

\* pll() storing its command in the field of the power setting
Builder_pll_misplaced(b, value) ==
    IF b.panic THEN b ELSE [b EXCEPT !.power_setting = PLLControl(value)]

\* Builder::pll
Builder_pll(b, value) ==
    IF b.panic THEN b ELSE [b EXCEPT !.pll = PLLControl(value)]

\* dimensions() without the assertion on the rows
Builder_dimensions_rows_unchecked(b, rows, cols) ==
    IF b.panic THEN b
    ELSE IF cols % 8 # 0 THEN [b EXCEPT !.panic = TRUE]
    ELSE IF cols > MAX_SOURCE_OUTPUTS THEN [b EXCEPT !.panic = TRUE]
    ELSE [b EXCEPT !.dimensions = <<[rows |-> rows, cols |-> cols]>>]

\* Builder::dimensions: its three assertions, then Some(dimensions)
Builder_dimensions(b, rows, cols) ==
    IF b.panic THEN b
    ELSE IF cols % 8 # 0 THEN [b EXCEPT !.panic = TRUE]
    ELSE IF rows > MAX_GATE_OUTPUTS THEN [b EXCEPT !.panic = TRUE]
    ELSE IF cols > MAX_SOURCE_OUTPUTS THEN [b EXCEPT !.panic = TRUE]
    ELSE [b EXCEPT !.dimensions = <<[rows |-> rows, cols |-> cols]>>]

\* Builder::rotation
Builder_rotation(b, r) == IF b.panic THEN b ELSE [b EXCEPT !.rotation = r]

\* Builder::build: Ok(Config), or Err(BuilderError {}) from ok_or_else
Builder_build(b) ==
    IF b.dimensions = <<>> THEN [ok |-> FALSE, error |-> "BuilderError"]
    ELSE [ok |-> TRUE,
          config |-> [power_setting |-> b.power_setting,
                      booster_soft_start |-> b.booster_soft_start,
                      panel_setting |-> b.panel_setting,
                      pll |-> b.pll,
                      dimensions |-> b.dimensions[1],
                      rotation |-> b.rotation]]

\* .build().expect("invalid config"): the Config of a builder that has its
\* dimensions
Expect(r) == r.config

----------------------------------------------------------------------------
(* display.rs: Display.                                                    *)

\* Display::rows, Display::cols, Display::rotation
Rows(cfg) == cfg.dimensions.rows
Cols(cfg) == cfg.dimensions.cols
RotationOf(cfg) == cfg.rotation

\* the size of a plane with rows * cols computed in the u8 of cols
BufLimit_u8_product(cfg) == AsU16(AsU8(Rows(cfg) * Cols(cfg)) \div 8)

\* ((rows * cols as u16) as u32 / 8) as u16
BufLimit(cfg) == AsU16(AsU16(Rows(cfg) * Cols(cfg)) \div 8)

\* init with PowerOn sent before BoosterSoftStart
Display_init_reordered(k, s, cfg) ==
    LET s1 == Command_execute(k, s, cfg.power_setting)
        s2 == Command_execute(k, s1, PowerOn)
        s3 == Command_execute(k, s2, cfg.booster_soft_start)
        s4 == Command_execute(k, delay_ms(s3, 200), cfg.panel_setting)
        s5 == Command_execute(k, s4, VCOMDataIntervalSetting(0, "Both", "V10"))
        s6 == Command_execute(k, s5, cfg.pll)
        s7 == Command_execute(k, s6, VCMDCSetting(10))
    IN  Command_execute(k, delay_ms(s7, 20), ResolutionSetting(Cols(cfg), Rows(cfg)))

\* Display::init
Display_init(k, s, cfg) ==
    LET s1 == Command_execute(k, s, cfg.power_setting)
        s2 == Command_execute(k, s1, cfg.booster_soft_start)
        s3 == Command_execute(k, s2, PowerOn)
        s4 == Command_execute(k, delay_ms(s3, 200), cfg.panel_setting)
        s5 == Command_execute(k, s4, VCOMDataIntervalSetting(0, "Both", "V10"))
        s6 == Command_execute(k, s5, cfg.pll)
        s7 == Command_execute(k, s6, VCMDCSetting(10))
    IN  Command_execute(k, delay_ms(s7, 20), ResolutionSetting(Cols(cfg), Rows(cfg)))

\* Display::reset
Display_reset(k, s, cfg) == Display_init(k, reset(k, s), cfg)

\* update ending with DeepSleep in place of DisplayRefresh
Display_update_sleeps(k, s, cfg, black, red) ==
    LET s1 == epd_update_data(k, s, 0, BufLimit(cfg), black)
        s2 == epd_update_data(k, s1, 1, BufLimit(cfg), red)
    IN  Command_execute(k, s2, DeepSleep)

\* Display::update up to its busy_wait
Display_update(k, s, cfg, black, red) ==
    LET s1 == epd_update_data(k, s, 0, BufLimit(cfg), black)
        s2 == epd_update_data(k, s1, 1, BufLimit(cfg), red)
    IN  Command_execute(k, s2, DisplayRefresh)

\* Display::power_down
Display_power_down(k, s) ==
    LET s1 == Command_execute(k, s, VCOMDataIntervalSetting(0, "BWOnly", "V10"))
        s2 == Command_execute(k, s1, VCMDCSetting(0))
    IN  Command_execute(k, s2, PowerOff)

\* Display::deep_sleep
Display_deep_sleep(k, s) == Command_execute(k, s, DeepSleep)

\* Display::signal_update up to its busy_wait.  graphics.rs calls it; its
\* body is not among the sources, and is taken to be what the documentation
\* of update describes: DisplayRefresh, then the wait on the busy line.
Display_signal_update(k, s) == Command_execute(k, s, DisplayRefresh)

----------------------------------------------------------------------------
(* graphics.rs: the rotation mapping and the two graphic displays.         *)

Colors == {"Black", "White", "Red"}

\* rotation() with the last byte of Rotate180 taken to be (width / 8) * height
rotation_past_the_end(x, y, width, height, r) ==
    CASE r = "Rotate0" ->
            [index |-> (x \div 8) + (width \div 8) * y,
             bit |-> Shr(128, x % 8),
             underflow |-> FALSE]
      [] r = "Rotate90" ->
            [index |-> ((width - 1 - y) \div 8) + (width \div 8) * x,
             bit |-> Shl8(1, y % 8),
             underflow |-> width - 1 - y < 0]
      [] r = "Rotate180" ->
            [index |-> ((width \div 8) * height) - ((x \div 8) + (width \div 8) * y),
             bit |-> Shl8(1, x % 8),
             underflow |-> ((width \div 8) * height)
                                - ((x \div 8) + (width \div 8) * y) < 0]
      [] r = "Rotate270" ->
            [index |-> (y \div 8) + (height - 1 - x) * (width \div 8),
             bit |-> Shr(128, y % 8),
             underflow |-> height - 1 - x < 0]

\* rotation() ignoring the orientation
rotation_unrotated(x, y, width, height, r) ==
    [index |-> (x \div 8) + (width \div 8) * y,
     bit |-> Shr(128, x % 8),
     underflow |-> FALSE]

\* rotation(): (index, bit).  The u32 arithmetic is done in the integers;
\* underflow says that a subtraction went below zero, where a build with
\* overflow checks panics and one without wraps (index < 0 then stands for
\* the wrapped value, index + 2^32, or 2^29 + index for Rotate90).
rotation(x, y, width, height, r) ==
    CASE r = "Rotate0" ->
            [index |-> (x \div 8) + (width \div 8) * y,
             bit |-> Shr(128, x % 8),
             underflow |-> FALSE]
      [] r = "Rotate90" ->
            [index |-> ((width - 1 - y) \div 8) + (width \div 8) * x,
             bit |-> Shl8(1, y % 8),
             underflow |-> width - 1 - y < 0]
      [] r = "Rotate180" ->
            [index |-> ((width \div 8) * height - 1) - ((x \div 8) + (width \div 8) * y),
             bit |-> Shl8(1, x % 8),
             underflow |-> \/ (width \div 8) * height - 1 < 0
                           \/ ((width \div 8) * height - 1)
                                - ((x \div 8) + (width \div 8) * y) < 0]
      [] r = "Rotate270" ->
            [index |-> (y \div 8) + (height - 1 - x) * (width \div 8),
             bit |-> Shr(128, y % 8),
             underflow |-> height - 1 - x < 0]

\* size() without the exchange for a display on its side
Size_unswapped(cfg) == [width |-> Cols(cfg), height |-> Rows(cfg)]

\* OriginDimensions::size of GraphicDisplay
Size(cfg) ==
    IF RotationOf(cfg) \in {"Rotate0", "Rotate180"}
    THEN [width |-> Cols(cfg), height |-> Rows(cfg)]
    ELSE [width |-> Rows(cfg), height |-> Cols(cfg)]

\* OriginDimensions::size of SramGraphicDisplay
SramGraphic_size(cfg) ==
    CASE RotationOf(cfg) \in {"Rotate0", "Rotate180"} ->
            [width |-> Cols(cfg), height |-> Rows(cfg)]
      [] RotationOf(cfg) \in {"Rotate90", "Rotate270"} ->
            [width |-> Rows(cfg), height |-> Cols(cfg)]

\* the (black, red) fill bytes of clear
ClearBytes(color) ==
    CASE color = "White" -> [black |-> 255, red |-> 255]
      [] color = "Black" -> [black |-> 0, red |-> 255]
      [] color = "Red" -> [black |-> 255, red |-> 0]

\* the match on color with the arms of Black and Red exchanged
SetBits_swapped(black, red, bit, color) ==
    CASE color = "Red" ->
            [black |-> BitAnd(black, BitNot8(bit)), red |-> BitOr(red, bit)]
      [] color = "White" ->
            [black |-> BitOr(black, bit), red |-> BitOr(red, bit)]
      [] color = "Black" ->
            [black |-> BitOr(black, bit), red |-> BitAnd(red, BitNot8(bit))]

\* the match on color clearing with `&= bit` in place of `&= !bit`
SetBits_unmasked(black, red, bit, color) ==
    CASE color = "Black" ->
            [black |-> BitAnd(black, bit), red |-> BitOr(red, bit)]
      [] color = "White" ->
            [black |-> BitOr(black, bit), red |-> BitOr(red, bit)]
      [] color = "Red" ->
            [black |-> BitOr(black, bit), red |-> BitAnd(red, bit)]

\* the match on color in set_pixel, applied to one byte of each plane
SetBits(black, red, bit, color) ==
    CASE color = "Black" ->
            [black |-> BitAnd(black, BitNot8(bit)), red |-> BitOr(red, bit)]
      [] color = "White" ->
            [black |-> BitOr(black, bit), red |-> BitOr(red, bit)]
      [] color = "Red" ->
            [black |-> BitOr(black, bit), red |-> BitAnd(red, BitNot8(bit))]

\* update moving the planes out of the memory chip, as SramGraphicDisplay does
Graphic_update_from_memory(k, s, cfg, black, red) ==
    LET s1 == Swallow(sram_epd_update_data(k, s, 0, BufLimit(cfg), 0))
        s2 == Swallow(sram_epd_update_data(k, s1, 1, BufLimit(cfg), BufLimit(cfg)))
    IN  Display_signal_update(k, s2)

\* GraphicDisplay::update up to the busy_wait of signal_update
Graphic_update(k, s, cfg, black, red) ==
    LET s1 == Swallow(epd_update_data(k, s, 0, BufLimit(cfg), black))
        s2 == Swallow(epd_update_data(k, s1, 1, BufLimit(cfg), red))
    IN  Display_signal_update(k, s2)

\* clear without the loop over the red plane
Graphic_clear_black_only(black, red, color) ==
    [black |-> [i \in 1..Len(black) |-> ClearBytes(color).black],
     red |-> red,
     panic |-> FALSE]

\* GraphicDisplay::clear: the two planes
Graphic_clear(black, red, color) ==
    [black |-> [i \in 1..Len(black) |-> ClearBytes(color).black],
     red |-> [i \in 1..Len(red) |-> ClearBytes(color).red],
     panic |-> FALSE]

\* set_pixel storing the pixel's bits over the byte, the other seven pixels
\* of the byte forgotten
Graphic_set_pixel_overwrites(cfg, black, red, x, y, color, checks) ==
    LET m == rotation(x, y, Cols(cfg), Rows(cfg), RotationOf(cfg))
        i == m.index + 1
    IN  IF \/ m.underflow /\ checks
           \/ m.index < 0
           \/ m.index >= Len(black)
           \/ m.index >= Len(red)
        THEN [black |-> black, red |-> red, panic |-> TRUE]
        ELSE [black |-> [black EXCEPT ![i] = SetBits(0, 0, m.bit, color).black],
              red |-> [red EXCEPT ![i] = SetBits(0, 0, m.bit, color).red],
              panic |-> FALSE]

\* GraphicDisplay::set_pixel: the two planes, or a panic (an overflow check,
\* or an index past the end of a buffer)
Graphic_set_pixel(cfg, black, red, x, y, color, checks) ==
    LET m == rotation(x, y, Cols(cfg), Rows(cfg), RotationOf(cfg))
        i == m.index + 1
    IN  IF \/ m.underflow /\ checks
           \/ m.index < 0
           \/ m.index >= Len(black)
        THEN [black |-> black, red |-> red, panic |-> TRUE]
        ELSE IF m.index >= Len(red)
        THEN [black |-> [black EXCEPT ![i] = SetBits(black[i], 0, m.bit, color).black],
              red |-> red, panic |-> TRUE]
        ELSE [black |-> [black EXCEPT ![i] = SetBits(black[i], red[i], m.bit, color).black],
              red |-> [red EXCEPT ![i] = SetBits(black[i], red[i], m.bit, color).red],
              panic |-> FALSE]

\* draw_iter returning after its first pixel
Graphic_draw_iter_first(cfg, g, pixels, checks) ==
    IF g.panic \/ pixels = <<>> THEN g
    ELSE Graphic_set_pixel(cfg, g.black, g.red, Head(pixels)[1], Head(pixels)[2],
                           Head(pixels)[3], checks)

\* DrawTarget::draw_iter of GraphicDisplay: set_pixel on each pixel in turn;
\* g is the planes so far, pixels a sequence of <<x, y, color>>
RECURSIVE Graphic_draw_iter(_, _, _, _)
Graphic_draw_iter(cfg, g, pixels, checks) ==
    IF g.panic \/ pixels = <<>> THEN g
    ELSE Graphic_draw_iter(cfg,
                           Graphic_set_pixel(cfg, g.black, g.red, Head(pixels)[1],
                                             Head(pixels)[2], Head(pixels)[3], checks),
                           Tail(pixels), checks)

\* new() placing both planes at address 0
SramGraphic_new_overlapping(cfg) ==
    [buffer_size |-> BufLimit(cfg), black_address |-> 0, red_address |-> 0]

\* SramGraphicDisplay::new: buffer_size, black_address, red_address
SramGraphic_new(cfg) ==
    [buffer_size |-> BufLimit(cfg), black_address |-> 0, red_address |-> BufLimit(cfg)]

\* SramGraphicDisplay::update up to the busy_wait of signal_update
SramGraphic_update(k, s, g) ==
    LET s1 == sram_epd_update_data(k, s, 0, g.buffer_size, g.black_address)
        s2 == sram_epd_update_data(k, s1, 1, g.buffer_size, g.red_address)
    IN  Display_signal_update(k, s2)

\* clear filling the red region with the byte of the black plane
SramGraphic_clear_one_fill(k, s, g, color) ==
    LET s1 == sram_clear(k, s, g.black_address, g.buffer_size, ClearBytes(color).black)
    IN  sram_clear(k, s1, g.red_address, g.buffer_size, ClearBytes(color).black)

\* SramGraphicDisplay::clear
SramGraphic_clear(k, s, g, color) ==
    LET s1 == sram_clear(k, s, g.black_address, g.buffer_size, ClearBytes(color).black)
    IN  sram_clear(k, s1, g.red_address, g.buffer_size, ClearBytes(color).red)

\* the end of SramGraphicDisplay::set_pixel: the match on color and the two
\* writes; black is the byte read first, s.rx the one read last
SetPixelWrite(k, s, baddr, raddr, black, bit, color) ==
    IF Halted(s) THEN s
    ELSE sram_write(k,
                    sram_write(k, s, baddr,
                               <<SetBits(black, s.rx[1], bit, color).black>>),
                    raddr, <<SetBits(black, s.rx[1], bit, color).red>>)

\* a set_pixel that writes the black byte back before it reads the red one
SetPixelRead_write_between(k, s, baddr, raddr, bit, color) ==
    IF Halted(s) THEN s
    ELSE LET s1 == sram_write(k, s, baddr, <<SetBits(s.rx[1], 0, bit, color).black>>)
             s2 == sram_read(k, s1, raddr, <<0>>)
         IN  IF Halted(s2) THEN s2
             ELSE sram_write(k, s2, raddr, <<SetBits(0, s2.rx[1], bit, color).red>>)

\* the second read of SramGraphicDisplay::set_pixel; s.rx is the byte read
\* first
SetPixelRead(k, s, baddr, raddr, bit, color) ==
    IF Halted(s) THEN s
    ELSE SetPixelWrite(k, sram_read(k, s, raddr, <<0>>), baddr, raddr, s.rx[1],
                       bit, color)

\* the start of SramGraphicDisplay::set_pixel: index as u16, and the two
\* addresses index + black_address and index + red_address; overflow says
\* that the u32 or the u16 arithmetic left its range
SramPixelAddress(g, cfg, x, y) ==
    LET m == rotation(x, y, Cols(cfg), Rows(cfg), RotationOf(cfg))
        index == AsU16(m.index)
    IN  [black |-> AsU16(index + g.black_address),
         red |-> AsU16(index + g.red_address),
         bit |-> m.bit,
         overflow |-> \/ m.underflow
                      \/ index + g.black_address > 65535
                      \/ index + g.red_address > 65535]

\* SramGraphicDisplay::set_pixel
SramGraphic_set_pixel(k, s, g, cfg, x, y, color, checks) ==
    IF SramPixelAddress(g, cfg, x, y).overflow /\ checks
    THEN Panic(s)
    ELSE SetPixelRead(k, sram_read(k, s, SramPixelAddress(g, cfg, x, y).black, <<0>>),
                      SramPixelAddress(g, cfg, x, y).black,
                      SramPixelAddress(g, cfg, x, y).red,
                      SramPixelAddress(g, cfg, x, y).bit, color)

----------------------------------------------------------------------------
(* The controller chip, as the documentation of reset and deep_sleep      *)
(* describes it: a hardware reset wakes it, uninitialized; the init        *)
(* sequence makes it active; DeepSleep with its check byte puts an active  *)
(* controller to sleep, where it ignores everything but the hardware       *)
(* reset.  The controller takes a command or its data when the call that   *)
(* sends it returns Ok.                                                    *)

InitOpcodes == <<1, 6, 4, 0, 80, 48, 130, 97>>

RECURSIVE Controller(_, _, _)
Controller(lc, cmds, calls) ==
    IF calls = <<>> THEN lc
    ELSE LET c == Head(calls)
             rest == Tail(calls)
         IN  CASE c.f = "reset" -> Controller("Uninitialized", <<>>, rest)
               [] c.f = "send_command" /\ c.ok ->
                     Controller(lc, Append(cmds, c.command), rest)
               [] c.f = "send_data" /\ c.ok /\ cmds # <<>> ->
                     Controller(
                         IF lc = "Active" /\ cmds[Len(cmds)] = 8 /\ c.data = <<165>>
                         THEN "Sleeping"
                         ELSE IF lc = "Uninitialized" /\ cmds = InitOpcodes
                         THEN "Active"
                         ELSE lc,
                         cmds, rest)
               [] OTHER -> Controller(lc, cmds, rest)

\* whether the operation delivered DisplayRefresh
Refreshed(calls) ==
    \E i \in 1..Len(calls) :
        calls[i].f = "send_command" /\ calls[i].ok /\ calls[i].command = 18

----------------------------------------------------------------------------
(* The state machine.                                                      *)
(*                                                                         *)
(* An operation starts from pc = "idle" and ends in pc = "returned" with   *)
(* its result and its logs; Return is the caller taking the result, which  *)
(* drops the logs.  Pins are assumed to work: setting an output pin        *)
(* succeeds (Interface unwraps the result, SramDisplayInterface ignores    *)
(* it); only reading the busy pin may fail, which busy_wait handles.       *)

Kinds == {"Interface", "SramDisplayInterface"}

\* the Configs the model builds
Configs ==
    {Expect(Builder_build(Builder_rotation(Builder_dimensions(Builder_default, MaxRows, 8), o))) :
        o \in {"Rotate0", "Rotate270"}}

Zeros(n) == [i \in 1..n |-> 0]

\* Interface::new with the pins idle; SpiBus::new and
\* SramDisplayInterface::new, with a memory chip of two planes and one byte
NewIo(k, cfg) ==
    [dc |-> IF IsInterface(k) THEN 1 ELSE 0,
     cs |-> 1,
     sram_cs |-> 1,
     reset |-> 1,
     mem |-> IF IsInterface(k) THEN <<>> ELSE Zeros(2 * BufLimit(cfg) + 1),
     chip |-> ChipIdle,
     seq |-> FALSE,
     miso |-> 0,
     rx |-> <<>>,
     reads |-> <<>>,
     wire |-> <<>>,
     calls |-> <<>>,
     err |-> FALSE,
     panic |-> FALSE,
     n |-> 0,
     fails |-> {},
     faulted |-> 0]

NoArg == [f |-> "none"]

Init ==
    /\ config \in Configs
    /\ kind \in Kinds
    /\ io = NewIo(kind, config)
    /\ black_buffer = (IF IsInterface(kind) THEN Zeros(BufLimit(config)) ELSE <<>>)
    /\ red_buffer = (IF IsInterface(kind) THEN Zeros(BufLimit(config)) ELSE <<>>)
    /\ sram_display = SramGraphic_new(config)
    /\ op = "none"
    /\ result = "none"
    /\ pc = "idle"
    /\ busy = 0
    /\ lifecycle = "Uninitialized"
    /\ draws = 0
    /\ arg = NoArg

\* the transport at the start of an operation whose transfers in F fail
Begin(s, F) ==
    [s EXCEPT !.wire = <<>>, !.calls = <<>>, !.err = FALSE, !.n = 0,
              !.fails = F, !.rx = <<>>, !.reads = <<>>, !.miso = 0]

\* The failures of an operation of at most n transfers: none, one transfer
\* (a glitch), or every transfer from some point on (the bus breaks); none
\* once MaxFaults operations have suffered failures.
FailSets(n) ==
    IF io.faulted >= MaxFaults THEN {{}}
    ELSE {{}} \cup {{i} : i \in 1..n} \cup {i..n : i \in 1..n}

\* what the operation returned
Returned(s) == IF s.panic THEN "panic" ELSE IF s.err THEN "Err" ELSE "Ok"

\* the end of an operation that does not wait on the busy line
Finish(name, s) ==
    /\ io' = [s EXCEPT !.fails = s.fails \cap (1..s.n),
                       !.faulted = IF s.fails = {} THEN @ ELSE @ + 1]
    /\ op' = name
    /\ result' = Returned(s)
    /\ pc' = IF s.panic THEN "panicked" ELSE "returned"
    /\ lifecycle' = Controller(lifecycle, <<>>, s.calls)
    /\ busy' = IF Refreshed(s.calls) /\ lifecycle # "Sleeping" THEN 1 ELSE busy

\* the end of the sending part of an update: it returns the error, or goes
\* on to busy_wait
FinishUpdate(name, s) ==
    /\ io' = [s EXCEPT !.fails = s.fails \cap (1..s.n),
                       !.faulted = IF s.fails = {} THEN @ ELSE @ + 1]
    /\ op' = name
    /\ result' = IF s.panic \/ s.err THEN Returned(s) ELSE "none"
    /\ pc' = IF s.panic THEN "panicked" ELSE IF s.err THEN "returned" ELSE "busy_wait"
    /\ lifecycle' = Controller(lifecycle, <<>>, s.calls)
    /\ busy' = IF Refreshed(s.calls) /\ lifecycle # "Sleeping" THEN 1 ELSE busy

\* the caller takes the result of the operation
Return ==
    /\ pc = "returned"
    /\ pc' = "idle"
    /\ op' = "none"
    /\ result' = "none"
    /\ io' = Begin(io, {})
    /\ arg' = NoArg
    /\ UNCHANGED <<config, kind, black_buffer, red_buffer, busy, lifecycle,
                   draws, sram_display>>

\* a reset that stores a rotation in the Config
Reset_reconfigures ==
    /\ pc = "idle"
    /\ \E F \in FailSets(Display_reset(kind, Begin(io, {}), config).n) :
          Finish("reset", Display_reset(kind, Begin(io, F), config))
    /\ config' = [config EXCEPT !.rotation = "Rotate90"]
    /\ UNCHANGED <<kind, black_buffer, red_buffer, draws, sram_display, arg>>

\* Display::reset
Reset ==
    /\ pc = "idle"
    /\ \E F \in FailSets(Display_reset(kind, Begin(io, {}), config).n) :
          Finish("reset", Display_reset(kind, Begin(io, F), config))
    /\ UNCHANGED <<config, kind, black_buffer, red_buffer, draws, sram_display, arg>>

\* Display::update, with the planes of the graphic display as its buffers
DisplayUpdate ==
    /\ pc = "idle"
    /\ \E F \in FailSets(Display_update(kind, Begin(io, {}), config,
                                        black_buffer, red_buffer).n) :
          FinishUpdate("Display.update",
                       Display_update(kind, Begin(io, F), config,
                                      black_buffer, red_buffer))
    /\ UNCHANGED <<config, kind, black_buffer, red_buffer, draws, sram_display, arg>>

\* GraphicDisplay::update
GraphicUpdate ==
    /\ pc = "idle"
    /\ IsInterface(kind)
    /\ \E F \in FailSets(Graphic_update(kind, Begin(io, {}), config,
                                        black_buffer, red_buffer).n) :
          FinishUpdate("GraphicDisplay.update",
                       Graphic_update(kind, Begin(io, F), config,
                                      black_buffer, red_buffer))
    /\ UNCHANGED <<config, kind, black_buffer, red_buffer, draws, sram_display, arg>>

\* SramGraphicDisplay::update
SramUpdate ==
    /\ pc = "idle"
    /\ ~IsInterface(kind)
    /\ \E F \in FailSets(SramGraphic_update(kind, Begin(io, {}), sram_display).n) :
          FinishUpdate("SramGraphicDisplay.update",
                       SramGraphic_update(kind, Begin(io, F), sram_display))
    /\ UNCHANGED <<config, kind, black_buffer, red_buffer, draws, sram_display, arg>>

\* one iteration of busy_wait: the loop goes on while the busy pin reads
\* high, and ends when it reads low or cannot be read
BusyRead(r) ==
    /\ pc = "busy_wait"
    /\ \/ /\ r = "level" /\ busy = 1
          /\ UNCHANGED <<io, result, pc>>
       \/ /\ r = "level" /\ busy = 0
          /\ io' = Log(io, [ev |-> "busy", v |-> 0])
          /\ result' = "Ok"
          /\ pc' = "returned"
       \/ /\ r = "error"
          /\ io' = Log(io, [ev |-> "busy_error"])
          /\ result' = "Ok"
          /\ pc' = "returned"
    /\ UNCHANGED <<config, kind, black_buffer, red_buffer, op, busy, lifecycle,
                   draws, sram_display, arg>>

\* busy.is_high() gives the level of the line, or an error
BusyPoll == \E r \in {"level", "error"} : BusyRead(r)

\* the controller ends the refresh and releases the busy line
BusyDeassert ==
    /\ pc = "busy_wait"
    /\ busy = 1
    /\ busy' = 0
    /\ UNCHANGED <<config, kind, io, black_buffer, red_buffer, op, result, pc,
                   lifecycle, draws, sram_display, arg>>

\* Display::power_down
PowerDown ==
    /\ pc = "idle"
    /\ \E F \in FailSets(Display_power_down(kind, Begin(io, {})).n) :
          Finish("power_down", Display_power_down(kind, Begin(io, F)))
    /\ UNCHANGED <<config, kind, black_buffer, red_buffer, draws, sram_display, arg>>

\* Display::deep_sleep
DeepSleepOp ==
    /\ pc = "idle"
    /\ \E F \in FailSets(Display_deep_sleep(kind, Begin(io, {})).n) :
          Finish("deep_sleep", Display_deep_sleep(kind, Begin(io, F)))
    /\ UNCHANGED <<config, kind, black_buffer, red_buffer, draws, sram_display, arg>>

\* the pixels the graphic display is drawn on: two opposite corners of size()
Corners(cfg) == {<<0, 0>>, <<Size(cfg).width - 1, Size(cfg).height - 1>>}

\* GraphicDisplay::clear
Clear ==
    /\ pc = "idle"
    /\ IsInterface(kind)
    /\ draws < MaxDraws
    /\ \E color \in Colors :
          /\ black_buffer' = Graphic_clear(black_buffer, red_buffer, color).black
          /\ red_buffer' = Graphic_clear(black_buffer, red_buffer, color).red
    /\ draws' = draws + 1
    /\ op' = "clear"
    /\ result' = "Ok"
    /\ pc' = "returned"
    /\ UNCHANGED <<config, kind, io, busy, lifecycle, sram_display, arg>>

\* GraphicDisplay::set_pixel
SetPixel ==
    /\ pc = "idle"
    /\ IsInterface(kind)
    /\ draws < MaxDraws
    /\ \E p \in Corners(config), color \in Colors :
          LET g == Graphic_set_pixel(config, black_buffer, red_buffer,
                                     p[1], p[2], color, TRUE)
          IN  /\ black_buffer' = g.black
              /\ red_buffer' = g.red
              /\ result' = IF g.panic THEN "panic" ELSE "Ok"
              /\ pc' = IF g.panic THEN "panicked" ELSE "returned"
    /\ draws' = draws + 1
    /\ op' = "set_pixel"
    /\ UNCHANGED <<config, kind, io, busy, lifecycle, sram_display, arg>>

\* SramGraphicDisplay::clear
SramClear ==
    /\ pc = "idle"
    /\ ~IsInterface(kind)
    /\ draws < MaxDraws
    /\ \E color \in Colors :
          \E F \in FailSets(SramGraphic_clear(kind, Begin(io, {}), sram_display,
                                              color).n) :
             Finish("clear",
                    SramGraphic_clear(kind, Begin(io, F), sram_display, color))
    /\ draws' = draws + 1
    /\ UNCHANGED <<config, kind, black_buffer, red_buffer, sram_display, arg>>

\* SramGraphicDisplay::set_pixel
SramSetPixel ==
    /\ pc = "idle"
    /\ ~IsInterface(kind)
    /\ draws < MaxDraws
    /\ \E p \in Corners(config), color \in Colors :
          \E F \in FailSets(SramGraphic_set_pixel(kind, Begin(io, {}), sram_display,
                                config, p[1], p[2], color, TRUE).n) :
             Finish("set_pixel",
                    SramGraphic_set_pixel(kind, Begin(io, F), sram_display,
                                          config, p[1], p[2], color, TRUE))
    /\ draws' = draws + 1
    /\ UNCHANGED <<config, kind, black_buffer, red_buffer, sram_display, arg>>

Next ==
    \/ Reset
    \/ DisplayUpdate
    \/ GraphicUpdate
    \/ SramUpdate
    \/ BusyPoll
    \/ BusyDeassert
    \/ PowerDown
    \/ DeepSleepOp
    \/ Clear
    \/ SetPixel
    \/ SramClear
    \/ SramSetPixel
    \/ Return

\* The driver: a Display with its graphic display, used through its
\* public operations.
Spec == Init /\ [][Next]_vars

\* The driver on a processor that keeps running the loop of busy_wait (a
\* read of the line that finds it low ends the loop), with a controller that
\* ends every refresh and releases the busy line.  Nothing makes a read of
\* the busy pin fail, and nothing keeps it from failing.
SpecLive == Spec /\ WF_vars(BusyRead("level")) /\ WF_vars(BusyDeassert)

----------------------------------------------------------------------------
(* The command codec alone: Command::execute and BufCommand::execute       *)
(* called on the transport, with any command.                              *)

Commands ==
    {PanelSetting(r) : r \in DisplayResolution}
    \cup {PowerSetting(a, b, c) : a \in {0, 43}, b \in {43, 63}, c \in {9, 63}}
    \cup {PowerOff, PowerOn, DeepSleep, DataStop, DisplayRefresh}
    \cup {BoosterSoftStart(a, b, c) : a \in {0, 23}, b \in {23, 255}, c \in {0, 255}}
    \cup {PLLControl(c) : c \in {0, 41, 255}}
    \cup {VCOMDataIntervalSetting(b, p, i) :
            b \in 0..3, p \in DataPolarity, i \in DataInterval}
    \cup {ResolutionSetting(h, v) : h \in {8, 160}, v \in {1, 255, 256, 296, 511, 512, 65535}}
    \cup {VCMDCSetting(v) : v \in {0, 10, 58}}

\* the power settings of Configs built with Builder::power_setting, which
\* takes any three bytes
BuiltPowerSettings ==
    {Expect(Builder_build(Builder_power_setting(
                Builder_dimensions(Builder_default, MaxRows, 8),
                v[1], v[2], v[3]))).power_setting :
        v \in {<<0, 63, 9>>, <<64, 43, 9>>, <<43, 43, 255>>}}

Buffers == {<<>>, <<165>>, <<0, 255>>}

\* Command::execute, in a build with or without debug assertions
Execute ==
    /\ pc = "idle"
    /\ \E c \in Commands \cup BuiltPowerSettings, checks \in BOOLEAN :
          \E F \in FailSets(Command_execute_build(kind, Begin(io, {}), c, checks).n) :
             /\ Finish("execute",
                       Command_execute_build(kind, Begin(io, F), c, checks))
             /\ arg' = [f |-> "execute", command |-> c, checks |-> checks]
    /\ UNCHANGED <<config, kind, black_buffer, red_buffer, draws, sram_display>>

\* BufCommand::execute
ExecuteBuf ==
    /\ pc = "idle"
    /\ \E layer \in {0, 1}, buffer \in Buffers :
          \E F \in FailSets(BufCommand_execute(kind, Begin(io, {}), layer, buffer).n) :
             /\ Finish("execute_buf",
                       BufCommand_execute(kind, Begin(io, F), layer, buffer))
             /\ arg' = [f |-> "execute_buf", layer |-> layer, buffer |-> buffer]
    /\ UNCHANGED <<config, kind, black_buffer, red_buffer, draws, sram_display>>

NextCodec == Execute \/ ExecuteBuf \/ Return

SpecCodec == Init /\ [][NextCodec]_vars

----------------------------------------------------------------------------
(* The rotation mapping alone: rotation() applied to pixels of panels.     *)

RotPanels ==
    {[width |-> 104, height |-> 212], [width |-> 8, height |-> 3],
     [width |-> 16, height |-> 2], [width |-> 160, height |-> 296]}

\* the values of 0..n-1 at most RotSpan from an end
Near(n) == {v \in 0..(n - 1) : v <= RotSpan \/ v >= n - 1 - RotSpan}

\* one call of rotation() on a pixel inside the rotated bounds
Rotate ==
    /\ pc = "idle"
    /\ \E d \in RotPanels, r \in Rotations :
          LET w == IF r \in {"Rotate0", "Rotate180"} THEN d.width ELSE d.height
              h == IF r \in {"Rotate0", "Rotate180"} THEN d.height ELSE d.width
          IN  \E x \in Near(w), y \in Near(h) :
                 LET m == rotation(x, y, d.width, d.height, r)
                 IN  arg' = [f |-> "rotation", x |-> x, y |-> y, width |-> d.width,
                             height |-> d.height, r |-> r, index |-> m.index,
                             bit |-> m.bit]
    /\ op' = "rotation"
    /\ result' = "Ok"
    /\ pc' = "returned"
    /\ UNCHANGED <<config, kind, io, black_buffer, red_buffer, busy, lifecycle,
                   draws, sram_display>>

NextRot == Rotate \/ Return

SpecRot == Init /\ [][NextRot]_vars

----------------------------------------------------------------------------
(* The in-host graphic display alone: GraphicDisplay over buffers the       *)
(* caller supplies, drawn on through clear, set_pixel and draw_iter.  arg   *)
(* keeps the call and the planes it found.                                  *)

\* the panels drawn on: the panel of the tests of graphics.rs, and a panel
\* two bytes wide
DrawPanels == {[rows |-> 3, cols |-> 8], [rows |-> 2, cols |-> 16]}

DrawConfigs ==
    {Expect(Builder_build(Builder_rotation(Builder_dimensions(Builder_default, d.rows, d.cols), o))) :
        d \in DrawPanels, o \in Rotations}

\* what the buffers hold when they are handed to GraphicDisplay::new:
\* zeros, as in the tests, or anything else
Planes(n) ==
    {[black |-> Zeros(n), red |-> Zeros(n)],
     [black |-> [i \in 1..n |-> 165], red |-> [i \in 1..n |-> 60]]}

InitDraw ==
    /\ config \in DrawConfigs
    /\ kind = "Interface"
    /\ io = NewIo(kind, config)
    /\ \E b \in Planes(BufLimit(config)) :
          /\ black_buffer = b.black
          /\ red_buffer = b.red
    /\ sram_display = SramGraphic_new(config)
    /\ op = "none"
    /\ result = "none"
    /\ pc = "idle"
    /\ busy = 0
    /\ lifecycle = "Uninitialized"
    /\ draws = 0
    /\ arg = NoArg

\* pixels inside size(): the four corners and the neighbours of the first
Inside(cfg) ==
    {p \in {<<0, 0>>, <<1, 0>>, <<0, 1>>, <<Size(cfg).width - 1, 0>>,
            <<0, Size(cfg).height - 1>>,
            <<Size(cfg).width - 1, Size(cfg).height - 1>>} :
        p[1] < Size(cfg).width /\ p[2] < Size(cfg).height}

\* pixels outside size(): past the right edge, below the bottom edge, both
Outside(cfg) ==
    {<<Size(cfg).width, 0>>, <<0, Size(cfg).height>>,
     <<Size(cfg).width, Size(cfg).height>>}

\* the pixels of the 3 x 3 rectangle at the origin stroked one pixel wide,
\* as draw_rect_white draws it
RectStroke(color) ==
    <<<<0, 0, color>>, <<1, 0, color>>, <<2, 0, color>>,
      <<0, 1, color>>, <<2, 1, color>>,
      <<0, 2, color>>, <<1, 2, color>>, <<2, 2, color>>>>

\* GraphicDisplay::clear
DrawClear ==
    /\ pc = "idle"
    /\ draws < MaxStrokes
    /\ \E color \in Colors :
          /\ black_buffer' = Graphic_clear(black_buffer, red_buffer, color).black
          /\ red_buffer' = Graphic_clear(black_buffer, red_buffer, color).red
          /\ arg' = [f |-> "clear", color |-> color,
                     black |-> black_buffer, red |-> red_buffer]
    /\ draws' = draws + 1
    /\ op' = "clear"
    /\ result' = "Ok"
    /\ pc' = "returned"
    /\ UNCHANGED <<config, kind, io, busy, lifecycle, sram_display>>

\* GraphicDisplay::set_pixel, in a build with or without overflow checks
DrawPixel ==
    /\ pc = "idle"
    /\ draws < MaxStrokes
    /\ \E p \in Inside(config) \cup Outside(config), color \in Colors,
          checks \in BOOLEAN :
          LET g == Graphic_set_pixel(config, black_buffer, red_buffer,
                                     p[1], p[2], color, checks)
          IN  /\ black_buffer' = g.black
              /\ red_buffer' = g.red
              /\ result' = IF g.panic THEN "panic" ELSE "Ok"
              /\ pc' = IF g.panic THEN "panicked" ELSE "returned"
              /\ arg' = [f |-> "set_pixel", x |-> p[1], y |-> p[2], color |-> color,
                         black |-> black_buffer, red |-> red_buffer]
    /\ draws' = draws + 1
    /\ op' = "set_pixel"
    /\ UNCHANGED <<config, kind, io, busy, lifecycle, sram_display>>

\* DrawTarget::draw_iter on the pixels of the stroked rectangle
DrawRect ==
    /\ pc = "idle"
    /\ draws < MaxStrokes
    /\ \E color \in Colors, checks \in BOOLEAN :
          LET g == Graphic_draw_iter(config,
                                     [black |-> black_buffer, red |-> red_buffer,
                                      panic |-> FALSE],
                                     RectStroke(color), checks)
          IN  /\ black_buffer' = g.black
              /\ red_buffer' = g.red
              /\ result' = IF g.panic THEN "panic" ELSE "Ok"
              /\ pc' = IF g.panic THEN "panicked" ELSE "returned"
              /\ arg' = [f |-> "draw_iter", color |-> color,
                         black |-> black_buffer, red |-> red_buffer]
    /\ draws' = draws + 1
    /\ op' = "draw_iter"
    /\ UNCHANGED <<config, kind, io, busy, lifecycle, sram_display>>

\* size() of the GraphicDisplay, and of a SramGraphicDisplay over the same
\* Display
DrawSize ==
    /\ pc = "idle"
    /\ arg' = [f |-> "size", size |-> Size(config),
               sram_size |-> SramGraphic_size(config)]
    /\ op' = "size"
    /\ result' = "Ok"
    /\ pc' = "returned"
    /\ UNCHANGED <<config, kind, io, black_buffer, red_buffer, busy, lifecycle,
                   draws, sram_display>>

NextDraw == DrawClear \/ DrawPixel \/ DrawRect \/ DrawSize \/ Return

SpecDraw == InitDraw /\ [][NextDraw]_vars

----------------------------------------------------------------------------
(* The graphic display in the memory chip alone: SramGraphicDisplay over    *)
(* the SramDisplayInterface, drawn on through clear and set_pixel, on a bus *)
(* that may fail.  The planes are the first bytes of io.mem.                *)

SramConfigs ==
    {Expect(Builder_build(Builder_rotation(Builder_dimensions(Builder_default, MaxRows, 8), o))) :
        o \in Rotations}

InitSram ==
    /\ config \in SramConfigs
    /\ kind = "SramDisplayInterface"
    /\ io = NewIo(kind, config)
    /\ black_buffer = <<>>
    /\ red_buffer = <<>>
    /\ sram_display = SramGraphic_new(config)
    /\ op = "none"
    /\ result = "none"
    /\ pc = "idle"
    /\ busy = 0
    /\ lifecycle = "Uninitialized"
    /\ draws = 0
    /\ arg = NoArg

\* SramGraphicDisplay::clear
SramDrawClear ==
    /\ pc = "idle"
    /\ draws < MaxSramStrokes
    /\ \E color \in Colors :
          /\ \E F \in FailSets(SramGraphic_clear(kind, Begin(io, {}), sram_display,
                                                 color).n) :
                Finish("clear",
                       SramGraphic_clear(kind, Begin(io, F), sram_display, color))
          /\ arg' = [f |-> "clear", color |-> color, mem |-> io.mem]
    /\ draws' = draws + 1
    /\ UNCHANGED <<config, kind, black_buffer, red_buffer, sram_display>>

\* SramGraphicDisplay::set_pixel, in a build with or without overflow checks
SramDrawPixel ==
    /\ pc = "idle"
    /\ draws < MaxSramStrokes
    /\ \E p \in Inside(config) \cup Outside(config), color \in Colors,
          checks \in BOOLEAN :
          /\ \E F \in FailSets(SramGraphic_set_pixel(kind, Begin(io, {}), sram_display,
                                   config, p[1], p[2], color, checks).n) :
                Finish("set_pixel",
                       SramGraphic_set_pixel(kind, Begin(io, F), sram_display,
                                             config, p[1], p[2], color, checks))
          /\ arg' = [f |-> "set_pixel", x |-> p[1], y |-> p[2], color |-> color,
                     mem |-> io.mem]
    /\ draws' = draws + 1
    /\ UNCHANGED <<config, kind, black_buffer, red_buffer, sram_display>>

\* the Configs a SramGraphicDisplay is made for: every Dimensions of these
\* that Builder::dimensions accepts, in every rotation
SramPanels ==
    {Expect(Builder_build(Builder_rotation(Builder_dimensions(Builder_default, r, c), o))) :
        r \in {1, 2, 3, 212, 295, 296}, c \in {8, 16, 104, 152, 160}, o \in Rotations}

\* SramGraphicDisplay::new on a Display of any of these panels
SramNew ==
    /\ pc = "idle"
    /\ draws = 0
    /\ \E cfg \in SramPanels :
          arg' = [f |-> "new", config |-> cfg, display |-> SramGraphic_new(cfg)]
    /\ op' = "new"
    /\ result' = "Ok"
    /\ pc' = "returned"
    /\ UNCHANGED <<config, kind, io, black_buffer, red_buffer, busy, lifecycle,
                   draws, sram_display>>

\* the addresses set_pixel computes for a pixel inside size(), on any of
\* these panels
SramLocate ==
    /\ pc = "idle"
    /\ draws = 0
    /\ \E cfg \in SramPanels :
          \E p \in Inside(cfg) :
             arg' = [f |-> "locate", config |-> cfg, x |-> p[1], y |-> p[2],
                     display |-> SramGraphic_new(cfg),
                     address |-> SramPixelAddress(SramGraphic_new(cfg), cfg, p[1], p[2])]
    /\ op' = "locate"
    /\ result' = "Ok"
    /\ pc' = "returned"
    /\ UNCHANGED <<config, kind, io, black_buffer, red_buffer, busy, lifecycle,
                   draws, sram_display>>

NextSram == SramDrawClear \/ SramDrawPixel \/ SramNew \/ SramLocate \/ Return

SpecSram == InitSram /\ [][NextSram]_vars

----------------------------------------------------------------------------
(* The shared bus alone: the memory operations of the                      *)
(* SramDisplayInterface called directly, on a bus that may fail, over a    *)
(* memory whose bytes all differ.  The chip addresses consecutive bytes    *)
(* (the sequential mode that reset sets).  arg keeps the call and the      *)
(* memory it found.                                                        *)

\* the memory: byte i - 1 holds 17 * i, and the last byte stands for the rest
BusMemory == [i \in 1..(2 * BusSpan + 2) |-> 17 * i]

InitBus ==
    /\ config = Expect(Builder_build(Builder_dimensions(Builder_default, MaxRows, 8)))
    /\ kind = "SramDisplayInterface"
    /\ io = [NewIo(kind, config) EXCEPT !.mem = BusMemory]
    /\ black_buffer = <<>>
    /\ red_buffer = <<>>
    /\ sram_display = SramGraphic_new(config)
    /\ op = "none"
    /\ result = "none"
    /\ pc = "idle"
    /\ busy = 0
    /\ lifecycle = "Uninitialized"
    /\ draws = 0
    /\ arg = NoArg

\* the slices written: none, one byte, BusSpan bytes
BusData == {<<>>, <<165>>, [i \in 1..BusSpan |-> i]}

\* DisplayInterface::sram_write
BusWrite ==
    /\ pc = "idle"
    /\ \E address \in 0..BusSpan, data \in BusData :
          /\ \E F \in FailSets(sram_write(kind, Begin(io, {}), address, data).n) :
                Finish("sram_write", sram_write(kind, Begin(io, F), address, data))
          /\ arg' = [f |-> "sram_write", address |-> address, data |-> data,
                     mem |-> io.mem, cs |-> io.cs, sram_cs |-> io.sram_cs]
    /\ UNCHANGED <<config, kind, black_buffer, red_buffer, draws, sram_display>>

\* DisplayInterface::sram_read into a slice of len bytes
BusRead ==
    /\ pc = "idle"
    /\ \E address \in 0..BusSpan, len \in 0..BusSpan :
          /\ \E F \in FailSets(sram_read(kind, Begin(io, {}), address, Zeros(len)).n) :
                Finish("sram_read",
                       sram_read(kind, Begin(io, F), address, Zeros(len)))
          /\ arg' = [f |-> "sram_read", address |-> address, len |-> len,
                     mem |-> io.mem, cs |-> io.cs, sram_cs |-> io.sram_cs]
    /\ UNCHANGED <<config, kind, black_buffer, red_buffer, draws, sram_display>>

\* sram_write(address, data)?; sram_read(address, buf) with buf as long as data
WriteThenRead(k, s, address, data) ==
    sram_read(k, sram_write(k, s, address, data), address, Zeros(Len(data)))

\* a caller writes a slice and reads it back
BusWriteRead ==
    /\ pc = "idle"
    /\ \E address \in 0..BusSpan, data \in BusData :
          /\ \E F \in FailSets(WriteThenRead(kind, Begin(io, {}), address, data).n) :
                Finish("write_read",
                       WriteThenRead(kind, Begin(io, F), address, data))
          /\ arg' = [f |-> "write_read", address |-> address, data |-> data,
                     mem |-> io.mem, cs |-> io.cs, sram_cs |-> io.sram_cs]
    /\ UNCHANGED <<config, kind, black_buffer, red_buffer, draws, sram_display>>

\* DisplayInterface::sram_epd_update_data
BusMove ==
    /\ pc = "idle"
    /\ \E layer \in {0, 1}, nbytes \in 0..BusSpan, start \in 0..BusSpan :
          /\ \E F \in FailSets(sram_epd_update_data(kind, Begin(io, {}), layer,
                                                    nbytes, start).n) :
                Finish("sram_epd_update_data",
                       sram_epd_update_data(kind, Begin(io, F), layer, nbytes, start))
          /\ arg' = [f |-> "sram_epd_update_data", layer |-> layer,
                     nbytes |-> nbytes, start_address |-> start,
                     mem |-> io.mem, cs |-> io.cs, sram_cs |-> io.sram_cs]
    /\ UNCHANGED <<config, kind, black_buffer, red_buffer, draws, sram_display>>

NextBus == BusWrite \/ BusRead \/ BusWriteRead \/ BusMove \/ Return

SpecBus == InitBus /\ [][NextBus]_vars

----------------------------------------------------------------------------
(* The Builder alone: Builder::new, its setters in any order and any       *)
(* number of times, then build.  arg keeps the builder and, for each       *)
(* setter, the value it was last called with (<<>> if never called).       *)

\* the values the setters are called with
DimensionsArgs == {[rows |-> r, cols |-> c] : r \in {0, 2, 296, 297, 65535},
                                               c \in {0, 8, 12, 160, 161, 168, 255}}

NothingSet ==
    [panel_setting |-> <<>>, power_setting |-> <<>>, booster_soft_start |-> <<>>,
     pll |-> <<>>, dimensions |-> <<>>, rotation |-> <<>>]

\* Builder::new
BuilderNew ==
    /\ pc = "idle"
    /\ arg' = [f |-> "Builder", builder |-> Builder_default, set |-> NothingSet]
    /\ op' = "new"
    /\ result' = "none"
    /\ pc' = "building"
    /\ UNCHANGED <<config, kind, io, black_buffer, red_buffer, busy, lifecycle,
                   draws, sram_display>>

\* a setter has run and left builder b: the chain goes on, or has panicked
Chained(name, b) ==
    /\ op' = name
    /\ result' = IF b.panic THEN "panic" ELSE "none"
    /\ pc' = IF b.panic THEN "panicked" ELSE "building"
    /\ UNCHANGED <<config, kind, io, black_buffer, red_buffer, busy, lifecycle,
                   draws, sram_display>>

\* Builder::panel_setting
BuilderPanelSetting ==
    /\ pc = "building"
    /\ \E res \in {"R96x230"} :
          /\ arg' = [arg EXCEPT !.builder = Builder_panel_setting(@, res),
                                !.set.panel_setting = <<res>>]
          /\ Chained("panel_setting", Builder_panel_setting(arg.builder, res))

\* Builder::power_setting
BuilderPowerSetting ==
    /\ pc = "building"
    /\ \E v \in {<<0, 63, 255>>} :
          /\ arg' = [arg EXCEPT !.builder = Builder_power_setting(@, v[1], v[2], v[3]),
                                !.set.power_setting = <<v>>]
          /\ Chained("power_setting",
                     Builder_power_setting(arg.builder, v[1], v[2], v[3]))

\* Builder::booster_soft_start
BuilderBoosterSoftStart ==
    /\ pc = "building"
    /\ \E v \in {<<1, 2, 3>>} :
          /\ arg' = [arg EXCEPT
                        !.builder = Builder_booster_soft_start(@, v[1], v[2], v[3]),
                        !.set.booster_soft_start = <<v>>]
          /\ Chained("booster_soft_start",
                     Builder_booster_soft_start(arg.builder, v[1], v[2], v[3]))

\* Builder::pll
BuilderPll ==
    /\ pc = "building"
    /\ \E value \in {0} :
          /\ arg' = [arg EXCEPT !.builder = Builder_pll(@, value),
                                !.set.pll = <<value>>]
          /\ Chained("pll", Builder_pll(arg.builder, value))

\* Builder::dimensions
BuilderDimensions ==
    /\ pc = "building"
    /\ \E d \in DimensionsArgs :
          /\ arg' = [arg EXCEPT !.builder = Builder_dimensions(@, d.rows, d.cols),
                                !.set.dimensions = <<d>>]
          /\ Chained("dimensions", Builder_dimensions(arg.builder, d.rows, d.cols))

\* Builder::rotation
BuilderRotation ==
    /\ pc = "building"
    /\ \E r \in {"Rotate0", "Rotate90"} :
          /\ arg' = [arg EXCEPT !.builder = Builder_rotation(@, r),
                                !.set.rotation = <<r>>]
          /\ Chained("rotation", Builder_rotation(arg.builder, r))

\* Builder::build
BuilderBuild ==
    /\ pc = "building"
    /\ arg' = [f |-> "build", builder |-> arg.builder, set |-> arg.set,
               built |-> Builder_build(arg.builder)]
    /\ op' = "build"
    /\ result' = IF Builder_build(arg.builder).ok THEN "Ok" ELSE "Err"
    /\ pc' = "returned"
    /\ UNCHANGED <<config, kind, io, black_buffer, red_buffer, busy, lifecycle,
                   draws, sram_display>>

NextBuilder ==
    \/ BuilderNew
    \/ BuilderPanelSetting
    \/ BuilderPowerSetting
    \/ BuilderBoosterSoftStart
    \/ BuilderPll
    \/ BuilderDimensions
    \/ BuilderRotation
    \/ BuilderBuild
    \/ Return

SpecBuilder == Init /\ [][NextBuilder]_vars

----------------------------------------------------------------------------
(* The properties.                                                         *)

\* the DisplayInterface calls as they are logged when they return Ok
CmdCall(opcode) == [f |-> "send_command", command |-> opcode, ok |-> TRUE]
DataCall(data) == [f |-> "send_data", data |-> data, ok |-> TRUE]
DelayCall(ms) == [f |-> "delay_ms", ms |-> ms, ok |-> TRUE]
ResetCall == [f |-> "reset", ok |-> TRUE]

Updates == {"Display.update", "GraphicDisplay.update", "SramGraphicDisplay.update"}

\* the operation has returned to its caller
Done(name) == op = name /\ pc = "returned"

\* the calls of an init that succeeds
InitCalls(cfg) ==
    <<CmdCall(1), DataCall(Pack(cfg.power_setting).data),
      CmdCall(6), DataCall(Pack(cfg.booster_soft_start).data),
      CmdCall(4),
      DelayCall(200),
      CmdCall(0), DataCall(Pack(cfg.panel_setting).data),
      CmdCall(80), DataCall(Pack(VCOMDataIntervalSetting(0, "Both", "V10")).data),
      CmdCall(48), DataCall(Pack(cfg.pll).data),
      CmdCall(130), DataCall(<<10>>),
      DelayCall(20),
      CmdCall(97), DataCall(<<Cols(cfg), (Rows(cfg) \div 256) % 2, Rows(cfg) % 256>>)>>

\* C1: a reset that returns Ok has made, after the hardware reset, exactly
\* the calls of init: the eight commands PowerSetting (0x01),
\* BoosterSoftStart (0x06), PowerOn (0x04), a delay of 200 ms, PanelSetting
\* (0x00), VCOMDataIntervalSetting (0x50) of (0, Both, V10), PLLControl
\* (0x30), VCMDCSetting (0x82) of 0x0A, a delay of 20 ms, ResolutionSetting
\* (0x61) of the Config's cols and rows, in this order and nothing else.
C1_InitSequence ==
    (Done("reset") /\ result = "Ok") => io.calls = <<ResetCall>> \o InitCalls(config)

C1_Witness ==
    /\ Done("reset") /\ result = "Ok"
    /\ kind = "SramDisplayInterface"
    /\ Len(SelectSeq(io.calls, LAMBDA c : c.f = "send_command")) = 8

\* the places of the wire log where the reset line is driven
ResetEdges(w) == {i \in 1..Len(w) : w[i].ev = "pin" /\ w[i].pin = "reset"}

PlaneCalls(layer) ==
    IF op = "SramGraphicDisplay.update"
    THEN <<[f |-> "sram_epd_update_data", layer |-> layer,
            nbytes |-> sram_display.buffer_size,
            start_address |-> IF layer = 0 THEN sram_display.black_address
                              ELSE sram_display.red_address,
            ok |-> TRUE]>>
    ELSE <<CmdCall(IF layer = 0 THEN 16 ELSE 19),
           DataCall(SubSeq(IF layer = 0 THEN black_buffer ELSE red_buffer,
                           1, BufLimit(config))),
           [f |-> "epd_update_data", layer |-> layer, nbytes |-> BufLimit(config),
            ok |-> TRUE]>>

\* C3: an update that returns Ok has sent the black plane (0x10), then the
\* red plane (0x13), then DisplayRefresh (0x12), and after that has seen the
\* busy line low.
C3_UpdateSequence ==
    (op \in Updates /\ pc = "returned" /\ result = "Ok") =>
        /\ io.calls = PlaneCalls(0) \o PlaneCalls(1) \o <<CmdCall(18)>>
        /\ io.wire # <<>>
        /\ io.wire[Len(io.wire)] = [ev |-> "busy", v |-> 0]

\* C4: a deep_sleep that returns Ok has executed VCOMDataIntervalSetting(0,
\* BWOnly, V10), VCMDCSetting(0), PowerOff and then DeepSleep (0x08) with
\* its argument 0xA5.
C4_DeepSleepPowersDown ==
    (Done("deep_sleep") /\ result = "Ok") =>
        io.calls = <<CmdCall(80),
                     DataCall(Pack(VCOMDataIntervalSetting(0, "BWOnly", "V10")).data),
                     CmdCall(130), DataCall(<<0>>),
                     CmdCall(3),
                     CmdCall(8), DataCall(<<165>>)>>

\* C5: the lifecycle changes only along Uninitialized -> Active -> Sleeping
\* -> Active (and back to Uninitialized when a reset fails after its
\* pulses); it becomes Active only by a reset that returns Ok, and every
\* such reset makes it Active; it becomes Sleeping only by a deep_sleep that
\* returns Ok, and every such deep_sleep of an active controller makes it
\* Sleeping; update, clear and set_pixel leave it as it is; and no operation
\* returns an error unless a transfer has failed, whatever the lifecycle.
C5_Lifecycle ==
    [][/\ (lifecycle' # lifecycle) =>
             \/ /\ <<lifecycle, lifecycle'>> \in
                       {<<"Uninitialized", "Active">>, <<"Sleeping", "Active">>}
                /\ op' = "reset" /\ result' = "Ok"
             \/ /\ <<lifecycle, lifecycle'>> = <<"Active", "Sleeping">>
                /\ op' = "deep_sleep" /\ result' = "Ok"
             \/ /\ lifecycle' = "Uninitialized"
                /\ op' = "reset" /\ result' = "Err"
       /\ (pc = "idle" /\ op' = "reset" /\ result' = "Ok") => lifecycle' = "Active"
       /\ (pc = "idle" /\ op' = "deep_sleep" /\ result' = "Ok" /\ lifecycle = "Active")
             => lifecycle' = "Sleeping"
       /\ (op' \in Updates \cup {"clear", "set_pixel"}) => lifecycle' = lifecycle
       /\ (pc = "idle" /\ result' = "Err") => io'.fails # {}
      ]_vars

C5_Witness ==
    /\ op \in Updates /\ pc = "returned" /\ result = "Ok"
    /\ lifecycle = "Sleeping"

\* how many argument bytes each command has
ArgCount ==
    [PanelSetting |-> 1, PowerSetting |-> 5, PowerOff |-> 0, PowerOn |-> 0,
     BoosterSoftStart |-> 3, DeepSleep |-> 1, DataStop |-> 0, DisplayRefresh |-> 0,
     PLLControl |-> 1, VCOMDataIntervalSetting |-> 1, ResolutionSetting |-> 3,
     VCMDCSetting |-> 1]

\* the calls of f in the log
CallsOf(f) == SelectSeq(io.calls, LAMBDA c : c.f = f)

\* C6: execute calls send_command once, with the opcode of its command;
\* when that succeeds it calls send_data once with exactly the argument
\* bytes, if there are any, and not at all if there are none, which is so
\* for PowerOff, PowerOn, DataStop and DisplayRefresh (and for a plane of no
\* bytes).
C6_ExecuteCalls ==
    /\ Done("execute") =>
          LET p == Pack(arg.command)
          IN  /\ Len(CallsOf("send_command")) = 1
              /\ io.calls[1].f = "send_command" /\ io.calls[1].command = p.command
              /\ Len(p.data) = ArgCount[arg.command.tag]
              /\ (Len(p.data) = 0) <=>
                    (arg.command.tag \in {"PowerOff", "PowerOn", "DataStop",
                                          "DisplayRefresh"})
              /\ Len(p.data) = 0 => Len(io.calls) = 1
              /\ (Len(p.data) > 0 /\ io.calls[1].ok) =>
                    /\ Len(io.calls) = 2
                    /\ io.calls[2].f = "send_data" /\ io.calls[2].data = p.data
              /\ result = "Ok" => \A i \in 1..Len(io.calls) : io.calls[i].ok
    /\ Done("execute_buf") =>
          /\ Len(CallsOf("send_command")) = 1
          /\ io.calls[1].f = "send_command"
          /\ io.calls[1].command = (IF arg.layer = 0 THEN 16 ELSE 19)
          /\ arg.buffer = <<>> => Len(io.calls) = 1
          /\ (arg.buffer # <<>> /\ io.calls[1].ok) =>
                /\ Len(io.calls) = 2
                /\ io.calls[2].f = "send_data" /\ io.calls[2].data = arg.buffer
          /\ result = "Ok" => \A i \in 1..Len(io.calls) : io.calls[i].ok

C6_Witness ==
    /\ Done("execute") /\ result = "Ok"
    /\ arg.command.tag = "PowerOff"
    /\ io.calls = <<CmdCall(3)>>

\* C7: a reset makes the calls of init in order up to the first that
\* fails and none after it, so that a failed send_command is followed by no
\* send_data and no call is made twice; it returns Err exactly when a call
\* has failed, and Ok only when all have been made.
C7_AbortOnFailure ==
    Done("reset") =>
        LET E == <<ResetCall>> \o InitCalls(config)
            n == Len(io.calls)
        IN  /\ n >= 1 /\ n <= Len(E)
            /\ \A i \in 1..(n - 1) : io.calls[i] = E[i]
            /\ result \in {"Ok", "Err"}
            /\ result = "Ok" => (n = Len(E) /\ io.calls[n] = E[n])
            /\ result = "Err" =>
                  (io.calls[n] = [E[n] EXCEPT !.ok = FALSE] /\ io.fails # {})

C7_Witness ==
    /\ Done("reset") /\ result = "Err"
    /\ Len(io.calls) = 4
    /\ io.calls[4].f = "send_command" /\ ~io.calls[4].ok

\* a call that sends a plane has failed
PlaneFailed ==
    \E i \in 1..Len(io.calls) :
        /\ io.calls[i].f \in {"epd_update_data", "sram_epd_update_data"}
        /\ ~io.calls[i].ok

\* C8: when sending a plane fails in an update, DisplayRefresh is not sent
\* and the update returns the error.
C8_PlaneFailureSurfaced ==
    (op \in Updates /\ PlaneFailed) =>
        /\ ~Refreshed(io.calls)
        /\ pc = "returned"
        /\ result = "Err"

\* the opcodes of the commands
Opcodes ==
    [PanelSetting |-> 0, PowerSetting |-> 1, PowerOff |-> 3, PowerOn |-> 4,
     BoosterSoftStart |-> 6, DeepSleep |-> 8, WriteBlackData |-> 16, DataStop |-> 17,
     DisplayRefresh |-> 18, WriteRedData |-> 19, PLLControl |-> 48,
     VCOMDataIntervalSetting |-> 80, ResolutionSetting |-> 97, VCMDCSetting |-> 130]

\* the bytes clocked on the bus, in order
BytesOf(w) == SelectSeq(w, LAMBDA e : e.ev = "byte")

\* C9: the first byte execute clocks out, with dc low, is the opcode of its
\* command in the table above; DeepSleep is followed by 0xA5; and no two
\* commands of the table have the same opcode.
C9_Opcodes ==
    /\ \A a, b \in DOMAIN Opcodes : a # b => Opcodes[a] # Opcodes[b]
    /\ (op \in {"execute", "execute_buf"} /\ pc = "returned" /\ io.calls[1].ok) =>
          LET name == IF op = "execute" THEN arg.command.tag
                      ELSE IF arg.layer = 0 THEN "WriteBlackData"
                      ELSE "WriteRedData"
              sent == BytesOf(io.wire)
          IN  /\ io.calls[1] = CmdCall(Opcodes[name])
              /\ sent # <<>>
              /\ sent[1].v = Opcodes[name] /\ sent[1].dc = 0
              /\ (name = "DeepSleep" /\ result = "Ok") =>
                    (Len(sent) = 2 /\ sent[2].v = 165 /\ sent[2].dc = 1)

C9_Witness ==
    /\ Done("execute") /\ result = "Ok"
    /\ arg.command.tag = "DeepSleep"
    /\ io.calls = <<CmdCall(8), DataCall(<<165>>)>>

\* the vectors of the tests rotation_0 and rotation_270: x, y, index, bit
RotationVectors ==
    [Rotate0 |-> {<<0, 0, 0, 128>>, <<103, 0, 12, 1>>, <<103, 211, 2755, 1>>,
                  <<0, 211, 2743, 128>>, <<1, 0, 0, 64>>, <<2, 0, 0, 32>>,
                  <<3, 0, 0, 16>>, <<4, 0, 0, 8>>},
     Rotate270 |-> {<<0, 0, 2743, 128>>, <<211, 0, 0, 128>>, <<211, 103, 12, 1>>,
                    <<0, 103, 2755, 1>>, <<7, 0, 2652, 128>>, <<0, 1, 2743, 64>>,
                    <<0, 2, 2743, 32>>, <<1, 8, 2731, 128>>},
     Rotate90 |-> {},
     Rotate180 |-> {}]

\* C10: for a pixel inside the rotated bounds rotation() returns the index
\* and the bit of the four formulas, and, for width 104 and height 212, the
\* values of the test vectors.
C10_Rotation ==
    Done("rotation") =>
        LET x == arg.x
            y == arg.y
            w == arg.width
            h == arg.height
        IN  /\ arg.r = "Rotate0" =>
                  /\ arg.index = (x \div 8) + (w \div 8) * y
                  /\ arg.bit = 2 ^ (7 - (x % 8))
            /\ arg.r = "Rotate90" =>
                  /\ arg.index = ((w - 1 - y) \div 8) + (w \div 8) * x
                  /\ arg.bit = 2 ^ (y % 8)
            /\ arg.r = "Rotate180" =>
                  /\ arg.index = (w \div 8) * h - 1 - ((x \div 8) + (w \div 8) * y)
                  /\ arg.bit = 2 ^ (x % 8)
            /\ arg.r = "Rotate270" =>
                  /\ arg.index = (y \div 8) + (h - 1 - x) * (w \div 8)
                  /\ arg.bit = 2 ^ (7 - (y % 8))
            /\ (w = 104 /\ h = 212) =>
                  \A v \in RotationVectors[arg.r] :
                      (x = v[1] /\ y = v[2]) => (arg.index = v[3] /\ arg.bit = v[4])

C10_Witness ==
    /\ Done("rotation")
    /\ arg.r = "Rotate270" /\ arg.width = 104 /\ arg.height = 212
    /\ arg.x = 211 /\ arg.y = 103
    /\ arg.index = 12 /\ arg.bit = 1

----------------------------------------------------------------------------
(* The properties of the pixel buffers.                                    *)

\* the call that has just returned
Drew(f) == pc = "returned" /\ op = f /\ arg.f = f

\* the pixel belongs to size()
InBounds(cfg, x, y) == x < Size(cfg).width /\ y < Size(cfg).height

\* the byte (from 1) and the mask the rotation mapping selects
ByteOf(cfg, x, y) == rotation(x, y, Cols(cfg), Rows(cfg), RotationOf(cfg)).index + 1
MaskOf(cfg, x, y) == rotation(x, y, Cols(cfg), Rows(cfg), RotationOf(cfg)).bit

\* bit position b of byte j of the plane is the bit of mask m in byte i
Selected(j, b, i, m) == j = i /\ Pow2(b) = m

\* the plane after writing v to the selected bit of plane p
PlaneWith(p, i, m, v) ==
    [j \in 1..Len(p) |->
        LET bits == [b \in 0..7 |-> IF Selected(j, b, i, m) THEN v ELSE Bit(p[j], b)]
        IN  bits[0] + 2 * bits[1] + 4 * bits[2] + 8 * bits[3] + 16 * bits[4]
            + 32 * bits[5] + 64 * bits[6] + 128 * bits[7]]

\* C11: set_pixel(x, y, color) on a pixel inside size() returns Ok and writes
\* the one bit the rotation mapping selects, in each plane: Black clears it in
\* the black plane and sets it in the red plane, White sets it in both, Red
\* sets it in the black plane and clears it in the red plane; every other
\* bit of both planes keeps its value.
C11_SetPixelBits ==
    (op = "set_pixel" /\ arg.f = "set_pixel" /\ InBounds(config, arg.x, arg.y)) =>
        /\ pc = "returned" /\ result = "Ok"
        /\ black_buffer = PlaneWith(arg.black, ByteOf(config, arg.x, arg.y),
                                    MaskOf(config, arg.x, arg.y),
                                    IF arg.color = "Black" THEN 0 ELSE 1)
        /\ red_buffer = PlaneWith(arg.red, ByteOf(config, arg.x, arg.y),
                                  MaskOf(config, arg.x, arg.y),
                                  IF arg.color = "Red" THEN 0 ELSE 1)

\* a Black pixel set on a plane pair that held something else at that bit
C11_Witness ==
    /\ Drew("set_pixel") /\ InBounds(config, arg.x, arg.y)
    /\ arg.color = "Black" /\ RotationOf(config) = "Rotate90"
    /\ black_buffer # arg.black /\ red_buffer # arg.red

\* the colour a bit pair stands for; the pair (0, 0) stands for none
Decode(blackbit, redbit) ==
    CASE blackbit = 0 /\ redbit = 1 -> "Black"
      [] blackbit = 1 /\ redbit = 1 -> "White"
      [] blackbit = 1 /\ redbit = 0 -> "Red"
      [] OTHER -> "none"

\* C12: clear(color) returns Ok and leaves every byte of the black plane
\* 0x00 for Black and 0xFF for White or Red, and every byte of the red plane
\* 0xFF for Black or White and 0x00 for Red, whatever the planes held; the
\* planes keep their lengths, every bit pair decodes to color, and clearing
\* to the same colour again changes nothing.
C12_Clear ==
    (op = "clear" /\ arg.f = "clear") =>
        /\ pc = "returned" /\ result = "Ok"
        /\ Len(black_buffer) = Len(arg.black) /\ Len(red_buffer) = Len(arg.red)
        /\ \A j \in 1..Len(black_buffer) :
              black_buffer[j] = (IF arg.color = "Black" THEN 0 ELSE 255)
        /\ \A j \in 1..Len(red_buffer) :
              red_buffer[j] = (IF arg.color = "Red" THEN 0 ELSE 255)
        /\ \A j \in 1..Len(black_buffer), b \in 0..7 :
              Decode(Bit(black_buffer[j], b), Bit(red_buffer[j], b)) = arg.color
        /\ Graphic_clear(black_buffer, red_buffer, arg.color).black = black_buffer
        /\ Graphic_clear(black_buffer, red_buffer, arg.color).red = red_buffer

\* a clear to Red of planes that pixels were set on
C12_Witness ==
    /\ Drew("clear") /\ arg.color = "Red"
    /\ \E j \in 1..Len(arg.red) : arg.red[j] \notin {0, 255}
    /\ \E j \in 1..Len(arg.black) : arg.black[j] \notin {0, 255}
    /\ draws = MaxStrokes

\* C13: set_pixel on a pixel outside size() is ignored: it returns Ok, does
\* not abort, and leaves every byte of both planes as it was.
C13_OutOfBoundsIgnored ==
    (op = "set_pixel" /\ arg.f = "set_pixel" /\ ~InBounds(config, arg.x, arg.y)) =>
        /\ pc = "returned" /\ result = "Ok"
        /\ black_buffer = arg.black
        /\ red_buffer = arg.red

\* the bit of mask m in byte v: 1 if set, 0 if clear
MaskBit(v, m) == IF BitAnd(v, m) = 0 THEN 0 ELSE 1

\* the colour read back at pixel (x, y) of the planes
PixelAt(cfg, black, red, x, y) ==
    Decode(MaskBit(black[ByteOf(cfg, x, y)], MaskOf(cfg, x, y)),
           MaskBit(red[ByteOf(cfg, x, y)], MaskOf(cfg, x, y)))

\* C14: after set_pixel(x, y, c) on a pixel inside size() of the in-host
\* display, the bit pair at the byte and mask the rotation mapping gives for
\* (x, y) decodes to c, for each colour and each rotation, whatever clear and
\* set_pixel calls came before.
C14_RoundTrip ==
    (op = "set_pixel" /\ arg.f = "set_pixel" /\ InBounds(config, arg.x, arg.y)) =>
        /\ pc = "returned"
        /\ PixelAt(config, black_buffer, red_buffer, arg.x, arg.y) = arg.color

\* a pixel that had been set Black is set Red, on a display turned by 180
C14_Witness ==
    /\ Drew("set_pixel") /\ InBounds(config, arg.x, arg.y)
    /\ RotationOf(config) = "Rotate180"
    /\ draws >= 2
    /\ arg.color = "Red"
    /\ PixelAt(config, arg.black, arg.red, arg.x, arg.y) = "Black"

\* the black and the red plane of the graphic display in the memory chip
SramBlack == SubSeq(io.mem, 1, sram_display.buffer_size)
SramRed == SubSeq(io.mem, sram_display.buffer_size + 1, 2 * sram_display.buffer_size)

\* no pixel position has its bit clear in both planes
NoBlank(black, red) ==
    \A j \in 1..Len(black), b \in 0..7 : Decode(Bit(black[j], b), Bit(red[j], b)) # "none"

\* C15: the bit pair (black 0, red 0) is never produced: a clear that returns
\* Ok leaves no pixel position with its bit clear in both planes, and from
\* planes without such a position no clear or set_pixel call, whatever it
\* returns, leaves one.
C15_FourthPairNeverProduced ==
    [][/\ (op' = "clear" /\ result' = "Ok") => NoBlank(SramBlack', SramRed')
       /\ NoBlank(SramBlack, SramRed) => NoBlank(SramBlack', SramRed')]_vars

\* the White-stroked rectangle has just been drawn on the panel of the tests
\* (3 rows, 8 columns, not rotated)
RectDrawn ==
    /\ op = "draw_iter" /\ arg.f = "draw_iter" /\ arg.color = "White"
    /\ Rows(config) = 3 /\ Cols(config) = 8 /\ RotationOf(config) = "Rotate0"

\* the rectangle as test draw_rect_white expects it in a plane
RectBytes == <<224, 160, 224>>

\* C16 as stated: the White-stroked 3 x 3 rectangle drawn at the origin of a
\* 3-row by 8-column display whose planes were cleared to White leaves the
\* black plane [0b11100000, 0b10100000, 0b11100000].
C16_RectOnClearedWhite ==
    (RectDrawn /\ arg.black = <<255, 255, 255>> /\ arg.red = <<255, 255, 255>>) =>
        /\ pc = "returned"
        /\ black_buffer = RectBytes

\* C16 as amended: drawn on zero-filled planes (as allocated, not cleared)
\* the rectangle leaves [0b11100000, 0b10100000, 0b11100000] in the black
\* plane and in the red plane; drawn on planes cleared to White it leaves
\* every byte 0xFF; in both cases drawing it again changes nothing.
C16_RectOnZeroed ==
    RectDrawn =>
        /\ pc = "returned" /\ result = "Ok"
        /\ (arg.black = Zeros(3) /\ arg.red = Zeros(3)) =>
              black_buffer = RectBytes /\ red_buffer = RectBytes
        /\ (arg.black = <<255, 255, 255>> /\ arg.red = <<255, 255, 255>>) =>
              black_buffer = <<255, 255, 255>> /\ red_buffer = <<255, 255, 255>>
        /\ (arg.black = RectBytes /\ arg.red = RectBytes) =>
              black_buffer = RectBytes /\ red_buffer = RectBytes

\* the rectangle drawn a second time, over itself
C16_Witness ==
    /\ RectDrawn /\ pc = "returned"
    /\ draws = 2
    /\ arg.black = RectBytes /\ arg.red = RectBytes
    /\ black_buffer = RectBytes

\* C17: size() gives (cols, rows) as (width, height) for Rotate0 and
\* Rotate180 and (rows, cols) for Rotate90 and Rotate270, and the same for
\* GraphicDisplay and for SramGraphicDisplay.
C17_Size ==
    (op = "size" /\ arg.f = "size") =>
        /\ RotationOf(config) \in {"Rotate0", "Rotate180"} =>
              /\ arg.size.width = config.dimensions.cols
              /\ arg.size.height = config.dimensions.rows
        /\ RotationOf(config) \in {"Rotate90", "Rotate270"} =>
              /\ arg.size.width = config.dimensions.rows
              /\ arg.size.height = config.dimensions.cols
        /\ arg.sram_size = arg.size

\* size() of a display on its side whose rows and columns differ
C17_Witness ==
    /\ Drew("size")
    /\ RotationOf(config) = "Rotate90"
    /\ arg.size.width = 2 /\ arg.size.height = 16

----------------------------------------------------------------------------
(* The properties of the Builder.                                          *)

\* the Dimensions the builder must not accept
BadDimensions(d) == d.cols % 8 # 0 \/ d.rows > 296 \/ d.cols > 160

SetOr(field, default) == IF arg.set[field] = <<>> THEN default ELSE arg.set[field][1]

\* C19: build returns BuilderError exactly when dimensions was never called
\* on the builder; otherwise it returns the Config of the values the setters
\* were last called with, where a setter never called leaves the default:
\* PowerSetting(0x2b, 0x2b, 0x9), BoosterSoftStart(0x17, 0x17, 0x17),
\* PanelSetting(R160x296), PLLControl(0x29), Rotate0.
C19_Build ==
    (op = "build" /\ arg.f = "build") =>
        /\ pc = "returned"
        /\ result = "Err" <=> arg.set.dimensions = <<>>
        /\ result = "Ok" <=> arg.set.dimensions # <<>>
        /\ result = "Err" => arg.built = [ok |-> FALSE, error |-> "BuilderError"]
        /\ result = "Ok" =>
              arg.built.config =
                 [power_setting |->
                     LET v == SetOr("power_setting", <<43, 43, 9>>)
                     IN  [tag |-> "PowerSetting", vdh |-> v[1], vdl |-> v[2], vdhr |-> v[3]],
                  booster_soft_start |->
                     LET v == SetOr("booster_soft_start", <<23, 23, 23>>)
                     IN  [tag |-> "BoosterSoftStart", phase_a |-> v[1], phase_b |-> v[2],
                          phase_c |-> v[3]],
                  panel_setting |->
                     [tag |-> "PanelSetting", res |-> SetOr("panel_setting", "R160x296")],
                  pll |-> [tag |-> "PLLControl", clock |-> SetOr("pll", 41)],
                  dimensions |-> arg.set.dimensions[1],
                  rotation |-> SetOr("rotation", "Rotate0")]

\* a Config built after pll and dimensions were set and nothing else
C19_Witness ==
    /\ op = "build" /\ result = "Ok"
    /\ arg.set.pll = <<0>>
    /\ arg.set.dimensions = <<[rows |-> 296, cols |-> 160]>>
    /\ arg.set.power_setting = <<>> /\ arg.set.rotation = <<>>
    /\ arg.set.panel_setting = <<>> /\ arg.set.booster_soft_start = <<>>

\* address a lies in the black region [0, size) or in the red region
\* [size, 2 * size) of a display whose planes have size bytes
InBlackRegion(a, size) == 0 <= a /\ a < size
InRedRegion(a, size) == size <= a /\ a < 2 * size

\* the sram_read, sram_write and sram_clear calls of the operation: call
\* number i is for the black plane if i is odd, for the red plane if even
PlaneOfCall(i) == IF i % 2 = 1 THEN "black" ELSE "red"

\* C20: SramGraphicDisplay::new sets black_address = 0, red_address =
\* buffer_size and buffer_size = ceil(rows * cols / 8), for every valid
\* Dimensions; the red region ends within the 16-bit addresses; the address
\* set_pixel computes for a pixel inside size() is in the black region for
\* the black plane and in the red region for the red plane; and every
\* address clear and such a set_pixel pass to sram_clear, sram_read and
\* sram_write lies in the region of the plane the call is for, the whole of
\* [address, address + nbytes) for sram_clear.
C20_SramRegions ==
    /\ sram_display = [buffer_size |-> (Rows(config) * Cols(config) + 7) \div 8,
                       black_address |-> 0,
                       red_address |-> (Rows(config) * Cols(config) + 7) \div 8]
    /\ (op \in {"new", "locate"} /\ arg.f = op) =>
          /\ arg.display.black_address = 0
          /\ arg.display.red_address = arg.display.buffer_size
          /\ arg.display.buffer_size
                = (arg.config.dimensions.rows * arg.config.dimensions.cols + 7) \div 8
          /\ 2 * arg.display.buffer_size <= 65536
    /\ (op = "locate" /\ arg.f = "locate") =>
          /\ ~arg.address.overflow
          /\ InBlackRegion(arg.address.black, arg.display.buffer_size)
          /\ InRedRegion(arg.address.red, arg.display.buffer_size)
    /\ (op = "clear" /\ arg.f = "clear") =>
          \A i \in 1..Len(io.calls) :
             /\ io.calls[i].f = "sram_clear"
             /\ io.calls[i].nbytes = sram_display.buffer_size
             /\ io.calls[i].address
                   = (IF PlaneOfCall(i) = "black" THEN 0 ELSE sram_display.buffer_size)
    /\ (op = "set_pixel" /\ arg.f = "set_pixel" /\ InBounds(config, arg.x, arg.y)) =>
          /\ pc = "returned"
          /\ \A i \in 1..Len(io.calls) :
                /\ io.calls[i].f = (IF i <= 2 THEN "sram_read" ELSE "sram_write")
                /\ IF PlaneOfCall(i) = "black"
                   THEN InBlackRegion(io.calls[i].address, sram_display.buffer_size)
                   ELSE InRedRegion(io.calls[i].address, sram_display.buffer_size)

\* a pixel of the last byte of the planes has been set
C20_Witness ==
    /\ op = "set_pixel" /\ arg.f = "set_pixel" /\ result = "Ok"
    /\ InBounds(config, arg.x, arg.y)
    /\ Len(io.calls) = 4
    /\ io.calls[3].address = sram_display.buffer_size - 1
    /\ io.calls[4].address = 2 * sram_display.buffer_size - 1

----------------------------------------------------------------------------
(* The properties of the shared bus.                                       *)

\* the bytes clocked while both chip-selects were low
BothLow(w) == {i \in 1..Len(w) : w[i].ev = "byte" /\ w[i].cs = 0 /\ w[i].sram_cs = 0}

\* C21: the controller chip-select and the memory chip-select are never low
\* at the same time outside the direct streaming of an update: not between
\* operations, whatever the operations before returned, and no byte of an
\* operation other than an update is clocked with both low.
C21_ChipSelectsExclusive ==
    /\ ~(io.cs = 0 /\ io.sram_cs = 0)
    /\ op \notin Updates => BothLow(io.wire) = {}

\* the bytes the controller took: those clocked with its chip-select low
ToController(w) == SelectSeq(BytesOf(w), LAMBDA e : e.cs = 0)

\* C22: a sram_epd_update_data(layer, nbytes, start_address) that returns Ok
\* has given the controller the write opcode (0x10 for layer 0, 0x13
\* otherwise) as a command byte and then exactly nbytes data bytes, the i-th
\* being the byte the memory held at start_address + i when the call began.
C22_StreamExact ==
    Drew("sram_epd_update_data") /\ result = "Ok" =>
        LET e == ToController(io.wire)
        IN  /\ Len(e) = arg.nbytes + 1
            /\ e[1].dc = 0
            /\ e[1].v = (IF arg.layer = 0 THEN 16 ELSE 19)
            /\ \A i \in 1..arg.nbytes :
                  /\ e[i + 1].dc = 1
                  /\ e[i + 1].v = arg.mem[arg.start_address + i]

\* C23: in a sram_epd_update_data every byte is clocked with the memory
\* chip-select low, which is not raised before the last byte; the first
\* three bytes are the READ header [0x03, addr_hi, addr_lo], clocked while
\* the controller chip-select is still high; the bytes after them are clocked
\* with the controller chip-select low; and a call that returns Ok has
\* clocked the header, the opcode and nbytes data bytes, and leaves both
\* chip-selects high.
C23_StreamOrder ==
    Drew("sram_epd_update_data") =>
        LET w == io.wire
            b == BytesOf(w)
            hdr == SramHeader(MCPSRAM_READ, arg.start_address)
        IN  /\ \A i \in 1..Len(b) :
                  /\ b[i].sram_cs = 0
                  /\ i <= 3 => b[i].v = hdr[i] /\ b[i].cs = 1
                  /\ i > 3 => b[i].cs = 0
            /\ \A i \in 1..Len(w) :
                  w[i].ev = "pin" /\ w[i].pin = "sram_cs" /\ w[i].v = 1 =>
                      \A j \in (i + 1)..Len(w) : w[j].ev # "byte"
            /\ result = "Ok" =>
                  /\ Len(b) = arg.nbytes + 4
                  /\ io.cs = 1
                  /\ io.sram_cs = 1

\* the wire of a memory access that has returned Ok: the memory chip-select
\* set low, the header and then n payload bytes and nothing else clocked with
\* it low, and the memory chip-select set high
MemoryAccess(w, opcode, address, n) ==
    /\ Len(w) = n + 5
    /\ w[1] = [ev |-> "pin", pin |-> "sram_cs", v |-> 0]
    /\ w[Len(w)] = [ev |-> "pin", pin |-> "sram_cs", v |-> 1]
    /\ \A i \in 2..(Len(w) - 1) : w[i].ev = "byte" /\ w[i].sram_cs = 0
    /\ w[2].v = opcode
    /\ w[3].v = Shr(address, 8)
    /\ w[4].v = BitAnd(address, 255)

\* C24: a sram_write(addr, data) that returns Ok has set the memory
\* chip-select low, sent [0x02, addr >> 8, addr & 0xFF] and then the
\* len(data) bytes of data, and set the chip-select high; a sram_read has done
\* the same with opcode 0x03 and len(data) payload transfers; and a sram_read
\* that returns Ok after a sram_write of the same address and length that
\* returned Ok has read the bytes written.
C24_MemoryAccess ==
    /\ Drew("sram_write") /\ result = "Ok" =>
          /\ MemoryAccess(io.wire, 2, arg.address, Len(arg.data))
          /\ \A i \in 1..Len(arg.data) : io.wire[i + 4].v = arg.data[i]
    /\ Drew("sram_read") /\ result = "Ok" =>
          /\ MemoryAccess(io.wire, 3, arg.address, arg.len)
          /\ Len(io.rx) = arg.len
    /\ Drew("write_read") /\ result = "Ok" => io.rx = arg.data

----------------------------------------------------------------------------
(* The properties of set_pixel in the memory chip.                         *)

\* the byte after writing v to its bit of mask m, its other seven bits kept
ByteWith(byte, m, v) == PlaneWith(<<byte>>, 1, m, v)[1]

\* the address set_pixel computes in a plane: index as u16, plus the plane's
PixelAddress(cfg, x, y, base) == AsU16(AsU16(ByteOf(cfg, x, y) - 1) + base)

\* C25: a set_pixel(x, y, color) of the graphic display in the memory chip
\* that returns Ok has made four calls: sram_read of one byte at index +
\* black_address, sram_read of one byte at index + red_address, then
\* sram_write at index + black_address of the byte read there with the one
\* bit of the rotation mapping set by the rule of the in-host variant (Black
\* 0, White 1, Red 1), then sram_write at index + red_address of the byte read
\* there with that bit set by the rule (Black 1, White 1, Red 0); the other
\* seven bits of each byte are written back as read.
C25_ReadModifyWrite ==
    Drew("set_pixel") /\ ~IsInterface(kind) /\ result = "Ok" =>
        LET c == io.calls
            baddr == PixelAddress(config, arg.x, arg.y, sram_display.black_address)
            raddr == PixelAddress(config, arg.x, arg.y, sram_display.red_address)
            m == MaskOf(config, arg.x, arg.y)
        IN  /\ Len(c) = 4
            /\ c[1].f = "sram_read" /\ c[1].address = baddr /\ Len(c[1].data) = 1
            /\ c[2].f = "sram_read" /\ c[2].address = raddr /\ Len(c[2].data) = 1
            /\ c[3].f = "sram_write" /\ c[3].address = baddr
            /\ c[3].data = <<ByteWith(c[1].data[1], m,
                                      IF arg.color = "Black" THEN 0 ELSE 1)>>
            /\ c[4].f = "sram_write" /\ c[4].address = raddr
            /\ c[4].data = <<ByteWith(c[2].data[1], m,
                                      IF arg.color = "Red" THEN 0 ELSE 1)>>

\* a Black pixel has been set in bytes that held other bits
C25_Witness ==
    /\ Drew("set_pixel") /\ ~IsInterface(kind) /\ result = "Ok"
    /\ arg.color = "Black"
    /\ Len(io.calls) = 4
    /\ io.calls[1].data = <<255>>
    /\ io.calls[3].data # <<255>>

----------------------------------------------------------------------------
(* The properties of the argument bytes of the commands.                   *)

\* the command of tag t has been executed and has returned Ok
Executed(t) == Drew("execute") /\ result = "Ok" /\ arg.command.tag = t

\* the resolution class of the controller's documentation
ResolutionClass(res) ==
    CASE res = "R96x230" -> 0
      [] res = "R96x252" -> 1
      [] res = "R128x296" -> 2
      [] res = "R160x296" -> 3

\* C26: PanelSetting(resolution) puts exactly two bytes on the bus: the
\* opcode 0x00 as a command byte, and one data byte whose bits 6-7 are the
\* resolution class and whose low six bits are 0b001111; for R160x296 the
\* bytes are 0x00 and 0xCF.
C26_PanelSetting ==
    Executed("PanelSetting") =>
        LET b == BytesOf(io.wire)
        IN  /\ Len(b) = 2
            /\ b[1].v = 0 /\ b[1].dc = 0
            /\ b[2].dc = 1
            /\ Shr(b[2].v, 6) = ResolutionClass(arg.command.res)
            /\ b[2].v % 64 = 15
            /\ arg.command.res = "R160x296" => b[2].v = 207

C26_Witness ==
    /\ Executed("PanelSetting")
    /\ arg.command.res = "R160x296"
    /\ Len(BytesOf(io.wire)) = 2
    /\ BytesOf(io.wire)[2].v = 207

\* the intervals in the order of the enum, V2 first
IntervalOrder ==
    <<"V2", "V3", "V4", "V5", "V6", "V7", "V8", "V9", "V10", "V11", "V12", "V13",
      "V14", "V15", "V16", "V17">>

\* the index of the interval in V2..V17, from 0
IntervalIndex(interval) == CHOOSE i \in 0..15 : IntervalOrder[i + 1] = interval

\* the polarity code
PolarityCode(pol) ==
    CASE pol = "BWOnly" -> 1
      [] pol = "RedOnly" -> 2
      [] pol = "Both" -> 3

\* C27: VCOMDataIntervalSetting(border, polarity, interval) with border < 4
\* sends the opcode 0x50 and one argument byte, equal to (border << 6) |
\* (polarity code << 4) | interval code with the polarity code BWOnly 1,
\* RedOnly 2, Both 3 and the interval code 15 minus the index of the interval
\* in V2..V17; the three fields occupy bits 6-7, bits 4-5 and bits 0-3 of the
\* byte, so that the byte gives back each of the three arguments.
C27_VcomByte ==
    (Executed("VCOMDataIntervalSetting") /\ arg.command.border_data < 4) =>
        LET b == BytesOf(io.wire)
            c == arg.command
        IN  /\ Len(b) = 2
            /\ b[1].v = 80 /\ b[1].dc = 0
            /\ b[2].dc = 1
            /\ b[2].v = c.border_data * 64 + PolarityCode(c.data_polarity) * 16
                           + (15 - IntervalIndex(c.interval))
            /\ Shr(b[2].v, 6) = c.border_data
            /\ Shr(b[2].v, 4) % 4 = PolarityCode(c.data_polarity)
            /\ b[2].v % 16 = 15 - IntervalIndex(c.interval)

C27_Witness ==
    /\ Executed("VCOMDataIntervalSetting")
    /\ arg.command.border_data = 3
    /\ arg.command.data_polarity = "RedOnly"
    /\ arg.command.interval = "V17"
    /\ Len(BytesOf(io.wire)) = 2
    /\ BytesOf(io.wire)[2].v = 224

\* C28: ResolutionSetting(cols, vertical) sends the opcode 0x61 and the three
\* argument bytes [cols, vertical_hi, vertical_lo], vertical_hi being bit 8 of
\* vertical and vertical_lo its low eight bits; for every vertical <= 511, and
\* so for every rows a Config can hold (rows <= 296), vertical is
\* vertical_hi * 256 + vertical_lo.
C28_ResolutionBytes ==
    Executed("ResolutionSetting") =>
        LET b == BytesOf(io.wire)
            c == arg.command
        IN  /\ Len(b) = 4
            /\ b[1].v = 97 /\ b[1].dc = 0
            /\ \A i \in 2..4 : b[i].dc = 1
            /\ b[2].v = c.horiz
            /\ b[3].v = Bit(c.vertical, 8)
            /\ b[4].v = c.vertical % 256
            /\ c.vertical <= 511 => b[3].v * 256 + b[4].v = c.vertical
            /\ \A v \in 0..511 : VresBytes(v)[1] * 256 + VresBytes(v)[2] = v

C28_Witness ==
    /\ Executed("ResolutionSetting")
    /\ arg.command.vertical = 296
    /\ Len(BytesOf(io.wire)) = 4
    /\ BytesOf(io.wire)[3].v = 1
    /\ BytesOf(io.wire)[4].v = 40

\* C29: PowerSetting(vdh, vdl, vdhr) sends the opcode 0x01 as a command byte
\* and then exactly the five data bytes [0x03, 0x00, vdh, vdl, vdhr], and
\* each of the three values sent is below 64, also when the command comes
\* from a Config built with Builder::power_setting.
C29_PowerSettingBytes ==
    Executed("PowerSetting") =>
        LET b == BytesOf(io.wire)
            c == arg.command
        IN  /\ Len(b) = 6
            /\ b[1].v = 1 /\ b[1].dc = 0
            /\ \A i \in 2..6 : b[i].dc = 1
            /\ <<b[2].v, b[3].v, b[4].v, b[5].v, b[6].v>> = <<3, 0, c.vdh, c.vdl, c.vdhr>>
            /\ \A i \in 4..6 : b[i].v < 64

----------------------------------------------------------------------------
(* The properties of busy_wait.                                            *)

\* C30: with a busy line that is released after every refresh, an update
\* that waits on the busy line returns in the end; and there is no timeout:
\* while the busy line stays high the update does not return.
C30_UpdateReturns ==
    /\ (pc = "busy_wait") ~> (pc = "returned")
    /\ [][(pc = "busy_wait" /\ busy = 1 /\ busy' = 1) => pc' = "busy_wait"]_vars

----------------------------------------------------------------------------
(* The properties of the Display as a whole.                               *)

\* C31: no step changes the Config of the Display: rows(), cols() and
\* rotation() return after every reset, update, power_down, deep_sleep, clear
\* and set_pixel, whatever it returns, what they returned before it.
C31_ConfigImmutable ==
    [][/\ config' = config
       /\ Rows(config') = Rows(config)
       /\ Cols(config') = Cols(config)
       /\ RotationOf(config') = RotationOf(config)]_vars

\* an update has failed on a sleeping controller, after a reset, a drawing
\* call and a deep_sleep
C31_Witness ==
    /\ op \in Updates /\ pc = "returned" /\ result = "Err"
    /\ lifecycle = "Sleeping"
    /\ draws = 1

\* the bytes a call gives the controller, each with the level of the
\* data/command pin it is due; v = -1 stands for a byte of the memory chip
ControllerBytes(c) ==
    CASE c.f = "send_command" -> <<[v |-> c.command, dc |-> 0]>>
      [] c.f = "send_data" -> [i \in 1..Len(c.data) |-> [v |-> c.data[i], dc |-> 1]]
      [] c.f = "sram_epd_update_data" ->
            <<[v |-> IF c.layer = 0 THEN 16 ELSE 19, dc |-> 0]>>
            \o [i \in 1..c.nbytes |-> [v |-> -1, dc |-> 1]]
      [] OTHER -> <<>>

\* the bytes the calls of a log give the controller, in order
RECURSIVE Due(_)
Due(calls) ==
    IF calls = <<>> THEN <<>> ELSE ControllerBytes(Head(calls)) \o Due(Tail(calls))

\* C32: the controller chip-select is high whenever no transfer is under way,
\* and the bytes clocked with it low are the bytes of the calls made, in
\* order: an opcode is clocked with the data/command pin low, an argument or
\* plane byte with the pin high; all of them once every call has returned Ok,
\* and the first of them otherwise.
C32_DataCommandPin ==
    /\ io.cs = 1
    /\ LET got == ToController(io.wire)
           due == Due(io.calls)
       IN  /\ Len(got) <= Len(due)
           /\ \A i \in 1..Len(got) :
                 /\ got[i].dc = due[i].dc
                 /\ due[i].v # -1 => got[i].v = due[i].v
           /\ (\A j \in 1..Len(io.calls) : io.calls[j].ok) => Len(got) = Len(due)

\* the two planes the update of this Display transmits: the buffers of the
\* host, or the two regions of the memory chip
PlaneData(k, black, red, mem) ==
    IF IsInterface(k) THEN <<SubSeq(black, 1, BufLimit(config)),
                             SubSeq(red, 1, BufLimit(config))>>
    ELSE <<SubSeq(mem, 1, sram_display.buffer_size),
           SubSeq(mem, sram_display.buffer_size + 1, 2 * sram_display.buffer_size)>>

\* the values of the bytes the controller took
ControllerValues(w) == [i \in 1..Len(ToController(w)) |-> ToController(w)[i].v]

\* C33: an update leaves both planes as they were, and an update that returns
\* Ok has given the controller 0x10 and the rows*cols/8 bytes of the black
\* plane, then 0x13 and the rows*cols/8 bytes of the red plane, then 0x12; so
\* two updates that return Ok with no drawing call between them transmit the
\* same plane data.
C33_UpdateRetransmits ==
    [][/\ (pc = "idle" /\ op' \in Updates /\ pc' # "panicked") =>
             PlaneData(kind, black_buffer', red_buffer', io'.mem)
                = PlaneData(kind, black_buffer, red_buffer, io.mem)
       /\ (op' \in Updates /\ pc' = "returned" /\ result' = "Ok") =>
             LET p == PlaneData(kind, black_buffer', red_buffer', io'.mem)
             IN  /\ Len(p[1]) = (Rows(config) * Cols(config)) \div 8
                 /\ Len(p[2]) = (Rows(config) * Cols(config)) \div 8
                 /\ ControllerValues(io'.wire) = <<16>> \o p[1] \o <<19>> \o p[2] \o <<18>>
      ]_vars

\* the bits set in a plane, as <<byte (from 1), bit position>>
BitsOf(p) == {c \in (1..Len(p)) \X (0..7) : Bit(p[c[1]], c[2]) = 1}

\* the bits in which two planes of one length differ
BitsChanged(p, q) ==
    {c \in (1..Len(p)) \X (0..7) : Bit(p[c[1]], c[2]) # Bit(q[c[1]], c[2])}

\* the bit the rotation mapping selects for the pixel
BitAt(cfg, x, y) ==
    CHOOSE c \in (1..BufLimit(cfg)) \X (0..7) :
        c[1] = ByteOf(cfg, x, y) /\ Pow2(c[2]) = MaskOf(cfg, x, y)

\* the pixels of the stroked rectangle all belong to size()
StrokeInBounds(cfg) ==
    \A i \in 1..Len(RectStroke("White")) :
        InBounds(cfg, RectStroke("White")[i][1], RectStroke("White")[i][2])

\* the bits of the pixels of the stroked rectangle
StrokeBits(cfg) ==
    {BitAt(cfg, RectStroke("White")[i][1], RectStroke("White")[i][2]) :
        i \in 1..Len(RectStroke("White"))}

\* C34: set_pixel on a pixel inside size() changes at most one bit of the
\* black plane and at most one bit of the red plane, the bit at the byte
\* index and mask of the rotation mapping, and the planes keep their length;
\* and the White pixels of the stroked rectangle, all inside size(), drawn on
\* all-zero planes leave exactly the bits of those pixels set in both
\* planes, one bit for each pixel ([0b11100000, 0b10100000, 0b11100000] on
\* the 3 x 8 panel not rotated).
C34_FrameEffect ==
    /\ (Drew("set_pixel") /\ InBounds(config, arg.x, arg.y)) =>
          /\ Len(black_buffer) = Len(arg.black)
          /\ Len(red_buffer) = Len(arg.red)
          /\ BitsChanged(arg.black, black_buffer) \subseteq {BitAt(config, arg.x, arg.y)}
          /\ BitsChanged(arg.red, red_buffer) \subseteq {BitAt(config, arg.x, arg.y)}
    /\ (/\ op = "draw_iter" /\ arg.f = "draw_iter" /\ arg.color = "White"
        /\ StrokeInBounds(config)
        /\ arg.black = Zeros(BufLimit(config))
        /\ arg.red = Zeros(BufLimit(config))) =>
          /\ pc = "returned" /\ result = "Ok"
          /\ BitsOf(black_buffer) = StrokeBits(config)
          /\ BitsOf(red_buffer) = StrokeBits(config)
          /\ Cardinality(StrokeBits(config)) = Len(RectStroke("White"))
          /\ (Rows(config) = 3 /\ RotationOf(config) = "Rotate0") =>
                black_buffer = <<224, 160, 224>> /\ red_buffer = <<224, 160, 224>>

\* the rectangle has been drawn in White, as the first drawing, on the
\* zero-filled planes of a panel on its side
C34_Witness ==
    /\ op = "draw_iter" /\ arg.f = "draw_iter" /\ arg.color = "White"
    /\ pc = "returned"
    /\ StrokeInBounds(config)
    /\ RotationOf(config) = "Rotate90"
    /\ arg.black = Zeros(BufLimit(config)) /\ arg.red = Zeros(BufLimit(config))
    /\ BitsOf(black_buffer) = StrokeBits(config)
    /\ draws = 1

----------------------------------------------------------------------------
(* The rotation mapping as a bijection.                                    *)

\* the pixels inside the rotated size() of a width x height panel: all of
\* them on a panel of at most 64 pixels, those near the edges on a larger one
PixelsOf(width, height, r) ==
    LET w == IF r \in {"Rotate0", "Rotate180"} THEN width ELSE height
        h == IF r \in {"Rotate0", "Rotate180"} THEN height ELSE width
    IN  IF width * height <= 64 THEN (0..(w - 1)) \X (0..(h - 1))
        ELSE Near(w) \X Near(h)

\* the pixel of bit position b of byte index, by rotation
PixelOfBit(index, b, width, height, r) ==
    CASE r = "Rotate0" ->
            <<8 * (index % (width \div 8)) + (7 - b), index \div (width \div 8)>>
      [] r = "Rotate90" ->
            <<index \div (width \div 8),
              8 * ((width \div 8) - 1 - (index % (width \div 8))) + b>>
      [] r = "Rotate180" ->
            <<8 * (((width \div 8) * height - 1 - index) % (width \div 8)) + b,
              ((width \div 8) * height - 1 - index) \div (width \div 8)>>
      [] r = "Rotate270" ->
            <<height - 1 - (index \div (width \div 8)),
              8 * (index % (width \div 8)) + (7 - b)>>

\* C35: on a panel of valid Dimensions and for each rotation, the rotation
\* mapping of a pixel inside the rotated size() gives a byte index in
\* [0, rows*cols/8) and a mask of exactly one bit, with no subtraction going
\* below zero; the pixel is recovered from its (index, mask), no other pixel
\* inside size() has the same (index, mask), and on a small panel the pixels
\* cover all rows*cols bit positions.
C35_RotationBijection ==
    Done("rotation") =>
        LET w == arg.width
            h == arg.height
            m == rotation(arg.x, arg.y, w, h, arg.r)
            all == PixelsOf(w, h, arg.r)
        IN  /\ w % 8 = 0 /\ w <= MAX_SOURCE_OUTPUTS /\ h <= MAX_GATE_OUTPUTS
            /\ m.index = arg.index /\ m.bit = arg.bit
            /\ ~m.underflow
            /\ arg.index >= 0 /\ arg.index < (w * h) \div 8
            /\ \E b \in 0..7 :
                  /\ arg.bit = Pow2(b)
                  /\ PixelOfBit(arg.index, b, w, h, arg.r) = <<arg.x, arg.y>>
            /\ \A q \in all :
                  LET n == rotation(q[1], q[2], w, h, arg.r)
                  IN  (n.index = arg.index /\ n.bit = arg.bit) => q = <<arg.x, arg.y>>
            /\ w * h <= 64 =>
                  Cardinality({<<rotation(q[1], q[2], w, h, arg.r).index,
                                 rotation(q[1], q[2], w, h, arg.r).bit>> : q \in all})
                      = w * h

\* the first pixel of the largest panel turned upside down: the last byte
C35_Witness ==
    /\ Done("rotation")
    /\ arg.r = "Rotate180" /\ arg.width = 160 /\ arg.height = 296
    /\ arg.x = 0 /\ arg.y = 0
    /\ arg.index = 5919 /\ arg.bit = 1

----------------------------------------------------------------------------
(* The SRAM variant against the in-host variant.                           *)

\* the n bytes of memory from address a
Region(mem, a, n) == SubSeq(mem, a + 1, a + n)

\* the planes the memory holds, as a GraphicDisplay would hold them
HostPlanes(mem) ==
    [black |-> Region(mem, sram_display.black_address, sram_display.buffer_size),
     red |-> Region(mem, sram_display.red_address, sram_display.buffer_size)]

\* what the controller is sent by an update of a GraphicDisplay holding the
\* planes, and by an update of the SramGraphicDisplay now
HostDelivers(planes) ==
    ControllerValues(Graphic_update("Interface",
                                    Begin(NewIo("Interface", config), {}),
                                    config, planes.black, planes.red).wire)
SramDelivers ==
    ControllerValues(SramGraphic_update(kind, Begin(io, {}), sram_display).wire)

\* the memory holds the planes, and an update now sends the controller what
\* an update of a GraphicDisplay holding them sends
SamePlanes(planes) ==
    /\ HostPlanes(io.mem).black = planes.black
    /\ HostPlanes(io.mem).red = planes.red
    /\ SramDelivers = HostDelivers(planes)
    /\ SramDelivers = <<16>> \o planes.black \o <<19>> \o planes.red \o <<18>>

\* C36: with every transport call so far succeeding, a clear or a set_pixel
\* on a pixel inside size() of the SramGraphicDisplay leaves in the memory
\* regions [0, buffer_size) and [buffer_size, 2*buffer_size) the black and
\* the red plane that the same call of a GraphicDisplay leaves, starting from
\* the planes the memory held before the call; and a following update
\* delivers the same plane data to the controller in both variants.
C36_SramRefinesHost ==
    /\ (Drew("clear") /\ kind = "SramDisplayInterface" /\ io.faulted = 0) =>
          /\ result = "Ok"
          /\ SamePlanes(Graphic_clear(HostPlanes(arg.mem).black,
                                      HostPlanes(arg.mem).red, arg.color))
    /\ (/\ Drew("set_pixel") /\ kind = "SramDisplayInterface" /\ io.faulted = 0
        /\ InBounds(config, arg.x, arg.y)) =>
          /\ result = "Ok"
          /\ LET g == Graphic_set_pixel(config, HostPlanes(arg.mem).black,
                                        HostPlanes(arg.mem).red,
                                        arg.x, arg.y, arg.color, TRUE)
             IN  ~g.panic /\ SamePlanes(g)

\* a Red pixel set in the last position after a clear to Black, on a panel
\* on its side
C36_Witness ==
    /\ Drew("set_pixel") /\ kind = "SramDisplayInterface" /\ io.faulted = 0
    /\ InBounds(config, arg.x, arg.y)
    /\ arg.color = "Red"
    /\ RotationOf(config) = "Rotate90"
    /\ draws = 2
    /\ HostPlanes(arg.mem).black = Zeros(sram_display.buffer_size)
    /\ HostPlanes(arg.mem).red = [i \in 1..sram_display.buffer_size |-> 255]
    /\ HostPlanes(io.mem).red # HostPlanes(arg.mem).red

----------------------------------------------------------------------------
(* The transport each graphic display uses.                                *)

\* the operations on the memory chip, and the operations of the two graphic
\* displays
SramOps == {"sram_read", "sram_write", "sram_clear", "sram_epd_update_data"}
HostGraphicOps == {"GraphicDisplay.update", "clear", "set_pixel"}
SramGraphicOps == {"SramGraphicDisplay.update", "clear", "set_pixel"}

\* the names of the DisplayInterface operations an operation has called
Called == {io.calls[i].f : i \in 1..Len(io.calls)}

\* C37: update, clear and set_pixel of a GraphicDisplay over an Interface
\* call no sram_* operation, and its update moves the planes with
\* epd_update_data; update, clear and set_pixel of a SramGraphicDisplay over
\* a SramDisplayInterface never call epd_update_data, and move and change
\* the planes with sram_* operations only; none of them panics, so the
\* unsupported-operation stubs are not reached.
C37_OwnTransport ==
    /\ (op \in HostGraphicOps /\ kind = "Interface") =>
          /\ pc # "panicked" /\ result # "panic" /\ ~io.panic
          /\ Called \cap SramOps = {}
          /\ op = "GraphicDisplay.update" => "epd_update_data" \in Called
          /\ op # "GraphicDisplay.update" => Called = {}
    /\ (op \in SramGraphicOps /\ kind = "SramDisplayInterface") =>
          /\ pc # "panicked" /\ result # "panic" /\ ~io.panic
          /\ "epd_update_data" \notin Called
          /\ op = "SramGraphicDisplay.update" =>
                Called \subseteq {"sram_epd_update_data", "send_command", "send_data"}
          /\ op = "clear" => Called \subseteq {"sram_clear"}
          /\ op = "set_pixel" => Called \subseteq {"sram_read", "sram_write"}
          /\ io.faulted = 0 => Called \cap SramOps # {}

\* an update of the SramGraphicDisplay has moved its planes out of the
\* memory chip and waits for the controller
C37_Witness ==
    /\ op = "SramGraphicDisplay.update" /\ kind = "SramDisplayInterface"
    /\ pc = "busy_wait"
    /\ "sram_epd_update_data" \in Called
    /\ draws = 1

----------------------------------------------------------------------------
(* set_pixel of the SramGraphicDisplay under a failing transport.          *)

\* the byte of memory at a chip address
MemAt(mem, address) == mem[address + 1]

\* C38: whenever set_pixel of the SramGraphicDisplay on a pixel inside size()
\* returns an error, the black byte and the red byte of the pixel in memory
\* both hold the values they held before the call.
C38_AllOrNothing ==
    (/\ Drew("set_pixel") /\ kind = "SramDisplayInterface" /\ result = "Err"
     /\ InBounds(config, arg.x, arg.y)) =>
        LET a == SramPixelAddress(sram_display, config, arg.x, arg.y)
        IN  /\ MemAt(io.mem, a.black) = MemAt(arg.mem, a.black)
            /\ MemAt(io.mem, a.red) = MemAt(arg.mem, a.red)

----------------------------------------------------------------------------
(* The addresses the memory chip reads while a plane is streamed.          *)

\* C39: while sram_epd_update_data(layer, nbytes, start_address) streams a
\* plane, every address the memory chip reads lies in
\* [start_address, start_address + nbytes); the chip is clocked for exactly
\* nbytes data bytes after the READ header when the call returns Ok; and a
\* stream of the black plane reads no byte of the red region.
C39_ReadsInsidePlane ==
    Drew("sram_epd_update_data") =>
        /\ \A i \in 1..Len(io.reads) :
              /\ io.reads[i] >= arg.start_address
              /\ io.reads[i] < arg.start_address + arg.nbytes
        /\ result = "Ok" => Len(io.reads) = arg.nbytes
        /\ (/\ arg.layer = 0
            /\ arg.start_address = sram_display.black_address
            /\ arg.nbytes = sram_display.buffer_size) =>
              \A i \in 1..Len(io.reads) :
                  ~(/\ io.reads[i] >= sram_display.red_address
                    /\ io.reads[i] < sram_display.red_address
                                        + sram_display.buffer_size)

----------------------------------------------------------------------------
(* The 16-bit arithmetic of the planes.                                    *)

\* C40: for valid Dimensions rows * cols computed in u16 is the mathematical
\* product and at most 47360; buffer_size is rows * cols / 8 without
\* remainder and at most 5920, in SramGraphicDisplay::new and in the
\* buf_limit of update alike; and the addresses index + black_address and
\* index + red_address of set_pixel for a pixel inside size() are formed
\* without wrapping, the red one below 2 * buffer_size <= 11840.
C40_NoWrap ==
    (op \in {"new", "locate"} /\ arg.f = op) =>
        LET rows == arg.config.dimensions.rows
            cols == arg.config.dimensions.cols
            size == arg.display.buffer_size
        IN  /\ rows <= MAX_GATE_OUTPUTS /\ cols <= MAX_SOURCE_OUTPUTS /\ cols % 8 = 0
            /\ AsU16(rows * cols) = rows * cols
            /\ rows * cols <= 47360
            /\ (rows * cols) % 8 = 0
            /\ 8 * size = rows * cols
            /\ size = BufLimit(arg.config)
            /\ size <= 5920
            /\ 2 * size <= 11840
            /\ op = "locate" =>
                  LET index == ByteOf(arg.config, arg.x, arg.y) - 1
                  IN  /\ ~arg.address.overflow
                      /\ index >= 0 /\ index < size
                      /\ arg.address.black = index
                      /\ arg.address.red = index + size
                      /\ arg.address.red < 2 * size
                      /\ arg.address.red < 65536

\* the last pixel of the largest panel: the last byte of the red region
C40_Witness ==
    /\ op = "locate" /\ arg.f = "locate" /\ pc = "returned"
    /\ arg.config.dimensions.rows = 296 /\ arg.config.dimensions.cols = 160
    /\ arg.config.rotation = "Rotate0"
    /\ arg.x = 159 /\ arg.y = 295
    /\ arg.display.buffer_size = 5920
    /\ arg.address.red = 11839

====
